---------------------------- MODULE Spec2Model ----------------------------
(***************************************************************************)
(* A model of @denis_bruns/nosql-dynamodb: the field/value/pagination      *)
(* validators, the attribute-value codec, the filter-expression builder,   *)
(* the query executor and the paginated fetch of DynamoDBService.          *)
(*                                                                         *)
(* JavaScript strings are TLA+ strings; a JavaScript value is a record     *)
(* tagged with its typeof (field t), so that values of different types     *)
(* never share a field and can be compared.  A JavaScript number is kept   *)
(* in tenths (field x10): 15 is 1.5, 10 is 1.  An object is the ordered    *)
(* sequence of its own enumerable entries.                                 *)
(***************************************************************************)
EXTENDS Integers, Sequences, FiniteSets, TLC

VARIABLES pc, input, output, params, sent, calls

vars == <<pc, input, output, params, sent, calls>>

-----------------------------------------------------------------------------
(* String primitives of the JavaScript runtime.                            *)

CharAt(s, i) == SubSeq(s, i, i)

UpperCaseLetters == "ABCDEFGHIJKLMNOPQRSTUVWXYZ"

LowerCaseLetters == "abcdefghijklmnopqrstuvwxyz"

DigitChars == "0123456789"

\* Whether the one-character string c occurs in the string cls.
InClass(c, cls) == \E i \in 1..Len(cls) : CharAt(cls, i) = c

LowerChar(c) ==
    IF InClass(c, UpperCaseLetters)
    THEN CharAt(LowerCaseLetters,
                CHOOSE i \in 1..Len(UpperCaseLetters) : CharAt(UpperCaseLetters, i) = c)
    ELSE c

\* String.prototype.toLowerCase, by halves so that long strings stay shallow.
RECURSIVE toLowerCase(_)
toLowerCase(s) ==
    IF Len(s) = 0 THEN s
    ELSE IF Len(s) = 1 THEN LowerChar(s)
    ELSE LET h == Len(s) \div 2
         IN  toLowerCase(SubSeq(s, 1, h)) \o toLowerCase(SubSeq(s, h + 1, Len(s)))

\* String.prototype.includes.
includes(s, p) ==
    \E i \in 1..(Len(s) - Len(p) + 1) : SubSeq(s, i, i + Len(p) - 1) = p

\* String.prototype.split with a one-character separator.
split(s, sep) ==
    LET cuts == {i \in 1..Len(s) : CharAt(s, i) = sep}
        n == Cardinality(cuts)
        cut(k) == IF k = 0 THEN 0
                  ELSE IF k = n + 1 THEN Len(s) + 1
                  ELSE CHOOSE i \in cuts : Cardinality({j \in cuts : j < i}) = k - 1
    IN  [k \in 1..(n + 1) |-> SubSeq(s, cut(k - 1) + 1, cut(k) - 1)]

\* Array.prototype.join.
RECURSIVE join(_, _)
join(parts, sep) ==
    IF Len(parts) = 0 THEN ""
    ELSE IF Len(parts) = 1 THEN parts[1]
    ELSE parts[1] \o sep \o join(Tail(parts), sep)

\* The pieces of s between the occurrences of the separator string sep,
\* scanning left to right (String.prototype.split with a string separator).
RECURSIVE splitOn(_, _)
splitOn(s, sep) ==
    IF ~includes(s, sep) THEN <<s>>
    ELSE LET i == CHOOSE k \in 1..(Len(s) - Len(sep) + 1) :
                    /\ SubSeq(s, k, k + Len(sep) - 1) = sep
                    /\ \A j \in 1..(k - 1) : SubSeq(s, j, j + Len(sep) - 1) # sep
         IN  <<SubSeq(s, 1, i - 1)>> \o splitOn(SubSeq(s, i + Len(sep), Len(s)), sep)

\* s repeated n times (String.prototype.repeat), by halves.
RECURSIVE repeat(_, _)
repeat(s, n) ==
    IF n = 0 THEN ""
    ELSE IF n = 1 THEN s
    ELSE repeat(s, n \div 2) \o repeat(s, n - (n \div 2))

-----------------------------------------------------------------------------
(* JavaScript values.                                                      *)

Undefined == [t |-> "undefined"]

Null == [t |-> "null"]

Str(s) == [t |-> "string", s |-> s]

\* A string of Len(s) + pad characters: s followed by pad characters "0",
\* which are not written out.  No denylisted pattern contains the character
\* 0, so a search of the string for a pattern is a search of s.
PaddedStr(s, pad) == [t |-> "string", s |-> s, pad |-> pad]

\* The number x10 / 10.
Num(x10) == [t |-> "number", x10 |-> x10]

NaN == [t |-> "number", nan |-> TRUE]

Bool(b) == [t |-> "boolean", b |-> b]

Arr(a) == [t |-> "array", a |-> a]

\* An object with the own enumerable entries e, a sequence of [k, v].
Obj(e) == [t |-> "object", e |-> e]

Entry(k, v) == [k |-> k, v |-> v]

typeof(v) == IF v.t \in {"null", "array", "object"} THEN "object" ELSE v.t

isNaN(v) == "nan" \in DOMAIN v

\* String.prototype.length.
length(v) == IF "pad" \in DOMAIN v THEN Len(v.s) + v.pad ELSE Len(v.s)

isDigits(s) == Len(s) > 0 /\ \A i \in 1..Len(s) : InClass(CharAt(s, i), DigitChars)

DigitVal(c) == (CHOOSE i \in 1..Len(DigitChars) : CharAt(DigitChars, i) = c) - 1

RECURSIVE digitsValue(_)
digitsValue(s) ==
    IF Len(s) = 0 THEN 0
    ELSE 10 * digitsValue(SubSeq(s, 1, Len(s) - 1)) + DigitVal(CharAt(s, Len(s)))

\* Number.prototype.toString (radix 10) of a number held in tenths.
NumberToString(n) ==
    IF isNaN(n) THEN "NaN"
    ELSE LET a == IF n.x10 < 0 THEN -n.x10 ELSE n.x10
         IN  (IF n.x10 < 0 THEN "-" ELSE "")
             \o ToString(a \div 10)
             \o (IF a % 10 = 0 THEN "" ELSE "." \o ToString(a % 10))

\* The number an unsigned decimal literal "ddd", "ddd." , "ddd.d" or ".d"
\* denotes, in tenths (digits after the first decimal are dropped), or NaN
\* when s is no such literal.
DecimalLiteral(s) ==
    LET p == <<>> \o split(s, ".")
    IN  IF Len(p) = 1 /\ isDigits(p[1]) THEN Num(10 * digitsValue(p[1]))
        ELSE IF /\ Len(p) = 2
                /\ (p[1] = "" \/ isDigits(p[1]))
                /\ (p[2] = "" \/ isDigits(p[2]))
                /\ ~(p[1] = "" /\ p[2] = "")
             THEN Num(10 * digitsValue(p[1])
                      + (IF p[2] = "" THEN 0 ELSE DigitVal(CharAt(p[2], 1))))
             ELSE NaN

Negate(n) == IF isNaN(n) THEN n ELSE Num(-n.x10)

SignedLiteral(s) ==
    IF Len(s) > 0 /\ CharAt(s, 1) = "-" THEN Negate(DecimalLiteral(SubSeq(s, 2, Len(s))))
    ELSE IF Len(s) > 0 /\ CharAt(s, 1) = "+" THEN DecimalLiteral(SubSeq(s, 2, Len(s)))
    ELSE DecimalLiteral(s)

\* const x = v; return F(x): v is evaluated once, whatever use F makes of x.
Const(v, F(_)) == CHOOSE r \in {F(x) : x \in {v}} : TRUE

\* String.prototype.trim, for the space character.
RECURSIVE trim(_)
trim(s) ==
    IF Len(s) > 0 /\ CharAt(s, 1) = " " THEN trim(SubSeq(s, 2, Len(s)))
    ELSE IF Len(s) > 0 /\ CharAt(s, Len(s)) = " " THEN trim(SubSeq(s, 1, Len(s) - 1))
    ELSE s

\* The length of the longest prefix of s that is a decimal literal.
LiteralPrefix(s) ==
    LET sign == IF Len(s) > 0 /\ CharAt(s, 1) \in {"-", "+"} THEN 1 ELSE 0
        ok == {k \in 0..Len(s) : k > sign /\ ~isNaN(SignedLiteral(SubSeq(s, 1, k)))}
    IN  IF ok = {} THEN 0 ELSE CHOOSE k \in ok : \A j \in ok : j <= k

\* parseFloat: the longest numeric prefix of the trimmed string, NaN when
\* there is none.
parseFloat(s) ==
    Const(trim(s), LAMBDA u :
        Const(LiteralPrefix(u), LAMBDA n :
            IF n = 0 THEN NaN ELSE SignedLiteral(SubSeq(u, 1, n))))

\* Number(v): the ToNumber conversion.
Number(v) ==
    CASE v.t = "undefined" -> NaN
      [] v.t = "null" -> Num(0)
      [] v.t = "boolean" -> IF v.b THEN Num(10) ELSE Num(0)
      [] v.t = "number" -> v
      [] v.t = "string" -> IF trim(v.s) = "" THEN Num(0) ELSE SignedLiteral(trim(v.s))
      [] OTHER -> NaN

\* Number.isInteger.
isInteger(n) == ~isNaN(n) /\ n.x10 % 10 = 0

\* The quoted form JSON.stringify gives a string: the quote and the
\* backslash are escaped.
RECURSIVE Quote(_)
Quote(s) ==
    IF Len(s) = 0 THEN ""
    ELSE IF Len(s) = 1
         THEN (IF s = "\"" THEN "\\\"" ELSE IF s = "\\" THEN "\\\\" ELSE s)
    ELSE LET h == Len(s) \div 2
         IN  Quote(SubSeq(s, 1, h)) \o Quote(SubSeq(s, h + 1, Len(s)))

\* JSON.stringify.  An undefined array element is written null and an
\* entry whose value is undefined is left out; NaN is written null.
RECURSIVE JSONstringify(_)
JSONstringify(v) ==
    CASE v.t = "string" -> "\"" \o Quote(v.s) \o "\""
      [] v.t = "number" -> IF isNaN(v) THEN "null" ELSE NumberToString(v)
      [] v.t = "boolean" -> IF v.b THEN "true" ELSE "false"
      [] v.t = "null" -> "null"
      [] v.t = "undefined" -> "null"
      [] v.t = "array" ->
            "[" \o join([i \in 1..Len(v.a) |-> JSONstringify(v.a[i])], ",") \o "]"
      [] v.t = "object" ->
            LET kept == SelectSeq(v.e, LAMBDA en : en.v.t # "undefined")
            IN  "{" \o join([i \in 1..Len(kept) |->
                               "\"" \o Quote(kept[i].k) \o "\":" \o JSONstringify(kept[i].v)],
                            ",") \o "}"

-----------------------------------------------------------------------------
(* Outcomes of a call: it returns (a value), or it throws an error.        *)

Return(v) == [value |-> v]

Throw(e) == [error |-> e]

Threw(r) == "error" \in DOMAIN r

DynamoValidationError(message) == [name |-> "DynamoValidationError", message |-> message]

\* The outcome of the first call that threw, in call order (Array.forEach
\* stops at the first exception), or the return of undefined.
FirstThrow(rs) ==
    IF \E i \in 1..Len(rs) : Threw(rs[i])
    THEN rs[CHOOSE i \in 1..Len(rs) : Threw(rs[i]) /\ \A j \in 1..(i - 1) : ~Threw(rs[j])]
    ELSE Return(Undefined)

\* obj[key] of an object value: undefined when there is no such entry.
Get(obj, key) ==
    IF \E i \in 1..Len(obj.e) : obj.e[i].k = key
    THEN obj.e[CHOOSE i \in 1..Len(obj.e) : obj.e[i].k = key].v
    ELSE Undefined

\* Object.keys.
ObjectKeys(obj) == [i \in 1..Len(obj.e) |-> obj.e[i].k]

\* Object.values.
ObjectValues(obj) == [i \in 1..Len(obj.e) |-> obj.e[i].v]

\* Object.getOwnPropertyNames: the enumerable keys, then the names of the
\* own properties that are not enumerable (field h, when the object has any).
ObjectGetOwnPropertyNames(obj) ==
    ObjectKeys(obj) \o (IF "h" \in DOMAIN obj THEN obj.h ELSE <<>>)

-----------------------------------------------------------------------------
(* DynamoValidator.ts                                                      *)

MAX_FIELD_DEPTH == 20

MAX_FIELD_LENGTH == 255

MAX_VALUE_LENGTH == 400000

\* VALID_FIELD_REGEX.test(part): /^[a-zA-Z][a-zA-Z0-9_]*$/
VALID_FIELD_REGEX_test(part) ==
    /\ Len(part) >= 1
    /\ InClass(CharAt(part, 1), LowerCaseLetters \o UpperCaseLetters)
    /\ \A i \in 2..Len(part) :
          InClass(CharAt(part, i), LowerCaseLetters \o UpperCaseLetters \o DigitChars \o "_")

UNSAFE_PATTERNS ==
    <<"__proto__", "constructor", "prototype", "$", ";",
      "DROP", "DELETE", "INSERT", "UPDATE">>

NOSQL_OPERATORS ==
    <<"$where", "$regex", "$ne", "$gt", "$lt", "$gte", "$lte",
      "$in", "$nin", "$or", "$and", "$not", "$exists", "$type",
      "$mod", "$text", "$elemMatch", "$size", "$all", "$expr">>

\* validateValue's local list.
dangerousPatterns ==
    <<"$where", "$regex", "$ne", "$gt", "$lt", "$gte", "$lte",
      "$in", "$nin", "$or", "$and", "$not", "$exists", "$type",
      "$mod", "$text", "$elemMatch", "$size", "$all", "$expr",
      "__proto__", "constructor", "prototype">>

\* patterns.some(pattern => text.toLowerCase().includes(pattern.toLowerCase()))
somePatternIn(patterns, text) ==
    LET lowered == toLowerCase(text)
    IN  \E i \in 1..Len(patterns) : includes(lowered, toLowerCase(patterns[i]))

\* The check of one part in validateFieldName's parts.forEach.
validateFieldPart(part) ==
    IF Len(part) > MAX_FIELD_LENGTH
    THEN Throw(DynamoValidationError(
             "Field part length exceeds maximum of " \o ToString(MAX_FIELD_LENGTH)))
    ELSE IF ~VALID_FIELD_REGEX_test(part)
    THEN Throw(DynamoValidationError("Invalid characters in field name: " \o part))
    ELSE Return(Undefined)

\* validateFieldName with the depth limit off by one.
validateFieldNameDepthOffByOne(field) ==
    IF field = ""
    THEN Throw(DynamoValidationError("Field name cannot be empty"))
    ELSE IF somePatternIn(UNSAFE_PATTERNS, field)
    THEN Throw(DynamoValidationError("Field name contains unsafe pattern: " \o field))
    ELSE LET parts == split(field, ".")
         IN  IF Len(parts) >= MAX_FIELD_DEPTH
             THEN Throw(DynamoValidationError(
                      "Field depth exceeds maximum of " \o ToString(MAX_FIELD_DEPTH)))
             ELSE FirstThrow([i \in 1..Len(parts) |-> validateFieldPart(parts[i])])

validateFieldName(field) ==
    IF field = ""
    THEN Throw(DynamoValidationError("Field name cannot be empty"))
    ELSE IF somePatternIn(UNSAFE_PATTERNS, field)
    THEN Throw(DynamoValidationError("Field name contains unsafe pattern: " \o field))
    ELSE LET parts == split(field, ".")
         IN  IF Len(parts) > MAX_FIELD_DEPTH
             THEN Throw(DynamoValidationError(
                      "Field depth exceeds maximum of " \o ToString(MAX_FIELD_DEPTH)))
             ELSE FirstThrow([i \in 1..Len(parts) |-> validateFieldPart(parts[i])])

RECURSIVE validateValue(_)

\* validateValue searching the serialized value without folding its case.
validateValueCaseSensitive(value) ==
    IF value.t \in {"undefined", "null"}
    THEN Throw(DynamoValidationError("Value cannot be null or undefined"))
    ELSE IF \E i \in 1..Len(dangerousPatterns) :
                includes(JSONstringify(value), dangerousPatterns[i])
    THEN Throw(DynamoValidationError("Potential NoSQL injection detected"))
    ELSE IF typeof(value) = "string" /\ length(value) > MAX_VALUE_LENGTH
    THEN Throw(DynamoValidationError(
             "Value length exceeds maximum of " \o ToString(MAX_VALUE_LENGTH)))
    ELSE IF value.t = "array"
    THEN IF Len(value.a) = 0
         THEN Throw(DynamoValidationError("Empty arrays not supported"))
         ELSE FirstThrow([i \in 1..Len(value.a) |-> validateValue(value.a[i])])
    ELSE IF value.t = "object"
    THEN LET propsToCheck == ObjectKeys(value) \o ObjectGetOwnPropertyNames(value)
         IN  IF \E i \in 1..Len(propsToCheck), j \in 1..Len(dangerousPatterns) :
                    propsToCheck[i] = dangerousPatterns[j]
             THEN Throw(DynamoValidationError("Potential NoSQL injection detected"))
             ELSE FirstThrow([i \in 1..Len(value.e) |-> validateValue(ObjectValues(value)[i])])
    ELSE Return(Undefined)

\* validateValue with the length limit off by one.
validateValueLengthOffByOne(value) ==
    IF value.t \in {"undefined", "null"}
    THEN Throw(DynamoValidationError("Value cannot be null or undefined"))
    ELSE IF somePatternIn(dangerousPatterns, JSONstringify(value))
    THEN Throw(DynamoValidationError("Potential NoSQL injection detected"))
    ELSE IF typeof(value) = "string" /\ length(value) >= MAX_VALUE_LENGTH
    THEN Throw(DynamoValidationError(
             "Value length exceeds maximum of " \o ToString(MAX_VALUE_LENGTH)))
    ELSE IF value.t = "array"
    THEN IF Len(value.a) = 0
         THEN Throw(DynamoValidationError("Empty arrays not supported"))
         ELSE FirstThrow([i \in 1..Len(value.a) |-> validateValue(value.a[i])])
    ELSE IF value.t = "object"
    THEN LET propsToCheck == ObjectKeys(value) \o ObjectGetOwnPropertyNames(value)
         IN  IF \E i \in 1..Len(propsToCheck), j \in 1..Len(dangerousPatterns) :
                    propsToCheck[i] = dangerousPatterns[j]
             THEN Throw(DynamoValidationError("Potential NoSQL injection detected"))
             ELSE FirstThrow([i \in 1..Len(value.e) |-> validateValue(ObjectValues(value)[i])])
    ELSE Return(Undefined)

validateValue(value) ==
    IF value.t \in {"undefined", "null"}
    THEN Throw(DynamoValidationError("Value cannot be null or undefined"))
    ELSE IF somePatternIn(dangerousPatterns, JSONstringify(value))
    THEN Throw(DynamoValidationError("Potential NoSQL injection detected"))
    ELSE IF typeof(value) = "string" /\ length(value) > MAX_VALUE_LENGTH
    THEN Throw(DynamoValidationError(
             "Value length exceeds maximum of " \o ToString(MAX_VALUE_LENGTH)))
    ELSE IF value.t = "array"
    THEN IF Len(value.a) = 0
         THEN Throw(DynamoValidationError("Empty arrays not supported"))
         ELSE FirstThrow([i \in 1..Len(value.a) |-> validateValue(value.a[i])])
    ELSE IF value.t = "object"
    THEN LET propsToCheck == ObjectKeys(value) \o ObjectGetOwnPropertyNames(value)
         IN  IF \E i \in 1..Len(propsToCheck), j \in 1..Len(dangerousPatterns) :
                    propsToCheck[i] = dangerousPatterns[j]
             THEN Throw(DynamoValidationError("Potential NoSQL injection detected"))
             ELSE FirstThrow([i \in 1..Len(value.e) |-> validateValue(ObjectValues(value)[i])])
    ELSE Return(Undefined)

\* A destructured property with a default: the default replaces undefined only.
WithDefault(v, default) == IF v.t = "undefined" THEN default ELSE v

validatePagination(paginationArg) ==
    LET pagination == IF paginationArg.t = "object" THEN paginationArg ELSE Obj(<<>>)
        page == WithDefault(Get(pagination, "page"), Num(10))
        size == WithDefault(Get(pagination, "size"), Num(100))
        limit == Get(pagination, "limit")
        offset == WithDefault(Get(pagination, "offset"), Num(0))
    IN  IF page.t # "undefined" /\ ~isInteger(Number(page))
        THEN Throw(DynamoValidationError("Page must be an integer"))
        ELSE IF size.t # "undefined" /\ ~isInteger(Number(size))
        THEN Throw(DynamoValidationError("Size must be an integer"))
        ELSE IF limit.t # "undefined" /\ ~isInteger(Number(limit))
        THEN Throw(DynamoValidationError("Limit must be an integer"))
        ELSE IF offset.t # "undefined" /\ ~isInteger(Number(offset))
        THEN Throw(DynamoValidationError("Offset must be an integer"))
        ELSE Return(Undefined)

-----------------------------------------------------------------------------
(* DynamoUtils.ts: the attribute-value codec.  An AttributeValue is the    *)
(* JavaScript object it is in the code: {S: "x"} is Obj(<<Entry("S",       *)
(* Str("x"))>>), and a raw item is an object whose values are such objects.*)

TypeError(message) == [name |-> "TypeError", message |-> message]

\* The AttributeValue {tag: v}.
AttributeValue(tag, v) == Obj(<<Entry(tag, v)>>)

\* !v is false.
truthy(v) ==
    CASE v.t \in {"undefined", "null"} -> FALSE
      [] v.t = "boolean" -> v.b
      [] v.t = "number" -> ~isNaN(v) /\ v.x10 # 0
      [] v.t = "string" -> length(v) > 0
      [] OTHER -> TRUE

\* v.key for a key that no prototype defines: a TypeError on null and
\* undefined, the own entry of an object, undefined otherwise.
Prop(v, key) ==
    IF v.t \in {"undefined", "null"}
    THEN Throw(TypeError("Cannot read properties of " \o v.t))
    ELSE IF v.t = "object" THEN Return(Get(v, key))
    ELSE Return(Undefined)

\* String(v), the conversion parseFloat applies to its argument.
RECURSIVE String(_)
String(v) ==
    CASE v.t = "string" -> v.s
      [] v.t = "number" -> NumberToString(v)
      [] v.t = "boolean" -> IF v.b THEN "true" ELSE "false"
      [] v.t = "array" ->
            join([i \in 1..Len(v.a) |->
                    IF v.a[i].t \in {"null", "undefined"} THEN "" ELSE String(v.a[i])], ",")
      [] v.t = "object" -> "[object Object]"
      [] OTHER -> v.t

\* array.map(f) for an f that may throw: the first throw, or the array of
\* the returned values.
MapOrThrow(rs) ==
    Const(<<>> \o rs, LAMBDA outcomes :
        IF \E i \in 1..Len(outcomes) : Threw(outcomes[i])
        THEN FirstThrow(outcomes)
        ELSE Return(Arr(<<>> \o [i \in 1..Len(outcomes) |-> outcomes[i].value])))

\* The object left by obj[k] = v for each entry in turn, obj a fresh {} and
\* the keys distinct: an assignment to the name __proto__ goes to the setter
\* Object.prototype has for it and makes no own property.
ObjectFromAssignments(entries) ==
    Obj(SelectSeq(entries, LAMBDA en : en.k # "__proto__"))

RECURSIVE toDynamoDBValue(_)
toDynamoDBValue(value) ==
    IF value.t \in {"null", "undefined"}
    THEN Throw(DynamoValidationError("Value cannot be null or undefined"))
    ELSE IF typeof(value) = "string" THEN Return(AttributeValue("S", value))
    ELSE IF typeof(value) = "number"
    THEN Return(AttributeValue("N", Str(NumberToString(value))))
    ELSE IF typeof(value) = "boolean" THEN Return(AttributeValue("BOOL", value))
    ELSE IF value.t = "array"
    THEN IF Len(value.a) = 0
         THEN Throw(DynamoValidationError("Empty arrays not supported"))
         ELSE LET firstType == typeof(value.a[1])
                  every == \A i \in 1..Len(value.a) : typeof(value.a[i]) = firstType
              IN  IF every /\ firstType = "string"
                  THEN Return(AttributeValue("SS", value))
                  ELSE IF every /\ firstType = "number"
                  THEN Return(AttributeValue("NS",
                           Arr([i \in 1..Len(value.a) |-> Str(NumberToString(value.a[i]))])))
                  ELSE LET mapped == MapOrThrow([i \in 1..Len(value.a) |->
                                                   toDynamoDBValue(value.a[i])])
                       IN  IF Threw(mapped) THEN mapped
                           ELSE Return(AttributeValue("L", mapped.value))
    ELSE IF typeof(value) = "object"
    THEN LET mapped == MapOrThrow([i \in 1..Len(value.e) |-> toDynamoDBValue(value.e[i].v)])
         IN  IF Threw(mapped) THEN mapped
             ELSE Return(AttributeValue("M",
                      ObjectFromAssignments([i \in 1..Len(value.e) |->
                             Entry(value.e[i].k, mapped.value.a[i])])))
    ELSE Throw(DynamoValidationError("Unsupported type: " \o typeof(value)))

RECURSIVE fromDynamoDBValue(_)
RECURSIVE mapDynamoDBItemToType(_)

\* The tags are tried in the order S, N, BOOL, SS, NS, M, L; reading val.S
\* throws when val is null or undefined, and .map throws on a non-array.
fromDynamoDBValue(val) == Const(val, LAMBDA v :
    LET get(tag) == Prop(v, tag).value
    IN  IF Threw(Prop(v, "S")) THEN Prop(v, "S")
        ELSE IF get("S").t # "undefined" THEN Return(get("S"))
        ELSE IF get("N").t # "undefined" THEN Return(parseFloat(String(get("N"))))
        ELSE IF get("BOOL").t # "undefined" THEN Return(get("BOOL"))
        ELSE IF get("SS").t # "undefined" THEN Return(get("SS"))
        ELSE IF get("NS").t # "undefined"
        THEN IF get("NS").t \in {"null", "undefined"}
             THEN Throw(TypeError("Cannot read properties of " \o get("NS").t))
             ELSE IF get("NS").t # "array"
             THEN Throw(TypeError("val.NS.map is not a function"))
             ELSE Return(Arr([i \in 1..Len(get("NS").a) |->
                                parseFloat(String(get("NS").a[i]))]))
        ELSE IF get("M").t # "undefined" THEN mapDynamoDBItemToType(get("M"))
        ELSE IF get("L").t # "undefined"
        THEN IF get("L").t \in {"null", "undefined"}
             THEN Throw(TypeError("Cannot read properties of " \o get("L").t))
             ELSE IF get("L").t # "array"
             THEN Throw(TypeError("val.L.map is not a function"))
             ELSE MapOrThrow([i \in 1..Len(get("L").a) |-> fromDynamoDBValue(get("L").a[i])])
        ELSE Return(Null))

\* Object.entries(item) of an array is its elements under their indices;
\* every entry whose value is falsy or no object is skipped.
mapDynamoDBItemToType(item) ==
    IF ~truthy(item) \/ typeof(item) # "object" THEN Return(Obj(<<>>))
    ELSE LET entries == IF item.t = "array"
                        THEN [i \in 1..Len(item.a) |-> Entry(ToString(i - 1), item.a[i])]
                        ELSE item.e
         IN  Const(SelectSeq(entries, LAMBDA en : truthy(en.v) /\ typeof(en.v) = "object"),
                   LAMBDA kept :
                 Const(MapOrThrow([i \in 1..Len(kept) |-> fromDynamoDBValue(kept[i].v)]),
                       LAMBDA mapped :
                     IF Threw(mapped) THEN mapped
                     ELSE Return(ObjectFromAssignments(
                                   [i \in 1..Len(kept) |->
                                       Entry(kept[i].k, mapped.value.a[i])]))))

-----------------------------------------------------------------------------
(* DynamoDBExpressionBuilder.  A DynamoExpression is a function from the   *)
(* names of the fields it has to their values; ExpressionAttributeNames    *)
(* and ExpressionAttributeValues are functions from placeholder names.     *)
(* A filter is a record [field, operator, value].                          *)

\* The partition-key name the builder is constructed with.
pkName == "id"

\* obj[key] = v
Assign(obj, key, v) == (key :> v) @@ obj

\* The assignments obj[kvs[1].k] = kvs[1].v, obj[kvs[2].k] = kvs[2].v, ...
\* made in that order.
RECURSIVE AssignAll(_, _)
AssignAll(obj, kvs) ==
    IF Len(kvs) = 0 THEN obj
    ELSE AssignAll(Assign(obj, kvs[1].k, kvs[1].v), Tail(kvs))

operatorMap ==
    [op \in {"<", ">", "<=", ">=", "=", "!=", "in", "not in", "like", "not like"} |->
        CASE op = "!=" -> "<>"
          [] op = "in" -> "IN"
          [] op = "not in" -> "NOT IN"
          [] op = "like" -> "contains"
          [] op = "not like" -> "NOT contains"
          [] OTHER -> op]

\* Names every object inherits from Object.prototype, with the text a
\* template literal gives the inherited value.
ObjectPrototype ==
    [name \in {"constructor", "toString", "valueOf", "hasOwnProperty", "__proto__"} |->
        CASE name = "__proto__" -> "[object Object]"
          [] name = "constructor" -> "function Object() { [native code] }"
          [] OTHER -> "function " \o name \o "() { [native code] }"]

\* this.operatorMap[operator]: the own entry, else the inherited one, else
\* undefined (the empty string stands for it: every defined one is truthy).
operatorMapLookup(operator) ==
    IF operator \in DOMAIN operatorMap THEN operatorMap[operator]
    ELSE IF operator \in DOMAIN ObjectPrototype THEN ObjectPrototype[operator]
    ELSE ""

\* `#key${index}` for every segment of the path.
keyPlaceholderPerPredicate(index, idx) == "#key" \o ToString(index)

\* `#key${index}_${idx}`
keyPlaceholder(index, idx) == "#key" \o ToString(index) \o "_" \o ToString(idx)

\* `:val${index}`
valPlaceholder(index) == ":val" \o ToString(index)

\* `:val${index}` for every element of the list.
valElementPlaceholderPerPredicate(index, i) == ":val" \o ToString(index)

\* `:val${index}_${i}`
valElementPlaceholder(index, i) == ":val" \o ToString(index) \o "_" \o ToString(i)

\* The outcome is the sub-expression text together with the expression as
\* the call leaves it.
buildSubExpression(expr, field, operator, value, index) ==
    LET pathParts == split(field, ".")
        names == AssignAll(expr.ExpressionAttributeNames,
                           [j \in 1..Len(pathParts) |->
                               Entry(keyPlaceholder(index, j - 1), pathParts[j])])
        path == join([j \in 1..Len(pathParts) |-> keyPlaceholder(index, j - 1)], ".")
        withNames == Assign(expr, "ExpressionAttributeNames", names)
        bound(e, key, av) ==
            Assign(e, "ExpressionAttributeValues", Assign(e.ExpressionAttributeValues, key, av))
        encoded == toDynamoDBValue(value)
    IN  CASE operator = "like" ->
               IF Threw(encoded) THEN encoded
               ELSE Return([expr |-> bound(withNames, valPlaceholder(index), encoded.value),
                            text |-> "contains(" \o path \o ", " \o valPlaceholder(index) \o ")"])
          [] operator = "not like" ->
               IF Threw(encoded) THEN encoded
               ELSE Return([expr |-> bound(withNames, valPlaceholder(index), encoded.value),
                            text |-> "NOT contains(" \o path \o ", "
                                       \o valPlaceholder(index) \o ")"])
          [] operator \in {"in", "not in"} ->
               LET list == IF value.t = "array" THEN value.a ELSE <<value>>
                   avs == MapOrThrow([k \in 1..Len(list) |-> toDynamoDBValue(list[k])])
                   conditions == [k \in 1..Len(list) |->
                                     path \o " = " \o valElementPlaceholder(index, k - 1)]
               IN  IF Threw(avs) THEN avs
                   ELSE Return(
                          [expr |-> Assign(withNames, "ExpressionAttributeValues",
                                       AssignAll(withNames.ExpressionAttributeValues,
                                           [k \in 1..Len(list) |->
                                               Entry(valElementPlaceholder(index, k - 1),
                                                     avs.value.a[k])])),
                           text |-> IF operator = "in"
                                    THEN "(" \o join(conditions, " OR ") \o ")"
                                    ELSE "NOT (" \o join(conditions, " OR ") \o ")"])
          [] OTHER ->
               IF Threw(encoded) THEN encoded
               ELSE IF operatorMapLookup(operator) = ""
               THEN Throw(DynamoValidationError("Unsupported operator: " \o operator))
               ELSE Return([expr |-> bound(withNames, valPlaceholder(index), encoded.value),
                            text |-> path \o " " \o operatorMapLookup(operator) \o " "
                                       \o valPlaceholder(index)])

addPartitionKeyExpression(expr, pkFilter) ==
    LET encoded == toDynamoDBValue(pkFilter.value)
    IN  IF Threw(encoded) THEN encoded
        ELSE Return(
               Assign(
                 Assign(
                   Assign(expr, "KeyConditionExpression", "#pk = :pkVal"),
                   "ExpressionAttributeNames",
                   Assign(expr.ExpressionAttributeNames, "#pk", pkFilter.field)),
                 "ExpressionAttributeValues",
                 Assign(expr.ExpressionAttributeValues, ":pkVal", encoded.value)))

\* filters.map((filter, i) => this.buildSubExpression(expr, ..., i)) from
\* filter i on (0-based), with the texts so far: the first throw ends it.
RECURSIVE buildSubExpressions(_, _, _, _)
buildSubExpressions(expr, filters, i, texts) ==
    IF i >= Len(filters) THEN Return([expr |-> expr, texts |-> texts])
    ELSE LET f == filters[i + 1]
             sub == buildSubExpression(expr, f.field, f.operator, f.value, i)
         IN  IF Threw(sub) THEN sub
             ELSE buildSubExpressions(sub.value.expr, filters, i + 1,
                                      Append(texts, sub.value.text))

addFilterExpressions(expr, filters) ==
    LET subs == buildSubExpressions(expr, filters, 0, <<>>)
    IN  IF Threw(subs) THEN subs
        ELSE Return(Assign(subs.value.expr, "FilterExpression",
                           join(subs.value.texts, " AND ")))

\* BaseExpressionBuilder.extractPartitionKeyFilter: the first filter on the
\* partition key with operator "=", and the other filters in their order.
\* pkFilter is a sequence of zero or one filter.
extractPartitionKeyFilter(filters) ==
    LET isPk(i) == filters[i].field = pkName /\ filters[i].operator = "="
        hits == {i \in 1..Len(filters) : isPk(i)}
        first == CHOOSE i \in hits : \A j \in hits : i <= j
    IN  IF hits = {}
        THEN [pkFilter |-> <<>>, remainingFilters |-> filters]
        ELSE [pkFilter |-> <<filters[first]>>,
              remainingFilters |-> SubSeq(filters, 1, first - 1)
                                     \o SubSeq(filters, first + 1, Len(filters))]

\* filters.forEach(filter => { validateFieldName(filter.field);
\*                             validateValue(filter.value); })
validateFilters(filters) ==
    FirstThrow([n \in 1..(2 * Len(filters)) |->
                  IF n % 2 = 1 THEN validateFieldName(filters[(n + 1) \div 2].field)
                  ELSE validateValue(filters[n \div 2].value)])

\* buildFilterExpression handing every filter, the partition key's too, to
\* addFilterExpressions.
buildFilterExpressionKeepingPk(filters) ==
    IF Len(filters) = 0 THEN Return(<<>>)
    ELSE IF Threw(validateFilters(filters)) THEN validateFilters(filters)
    ELSE LET expr == [ExpressionAttributeNames |-> <<>>, ExpressionAttributeValues |-> <<>>]
             extracted == extractPartitionKeyFilter(filters)
             withPk == IF Len(extracted.pkFilter) > 0
                       THEN addPartitionKeyExpression(expr, extracted.pkFilter[1])
                       ELSE Return(expr)
         IN  IF Threw(withPk) THEN withPk
             ELSE addFilterExpressions(withPk.value, filters)

buildFilterExpression(filters) ==
    IF Len(filters) = 0 THEN Return(<<>>)
    ELSE IF Threw(validateFilters(filters)) THEN validateFilters(filters)
    ELSE LET expr == [ExpressionAttributeNames |-> <<>>, ExpressionAttributeValues |-> <<>>]
             extracted == extractPartitionKeyFilter(filters)
             withPk == IF Len(extracted.pkFilter) > 0
                       THEN addPartitionKeyExpression(expr, extracted.pkFilter[1])
                       ELSE Return(expr)
         IN  IF Threw(withPk) THEN withPk
             ELSE IF Len(extracted.remainingFilters) > 0
             THEN addFilterExpressions(withPk.value, extracted.remainingFilters)
             ELSE withPk

-----------------------------------------------------------------------------
(* DynamoQueryExecutor and DynamoDBService.                                *)

tableName == "table"

\* The fields of obj among keys (a property that is undefined is not kept).
Pick(obj, keys) == [k \in (DOMAIN obj) \cap keys |-> obj[k]]

\* executeQuery sending a ScanCommand whatever the expression holds.
executeQueryCommandAlwaysScan(p) ==
    [command |-> "ScanCommand",
     input |-> Pick(p, {"TableName", "KeyConditionExpression", "FilterExpression",
                        "ExpressionAttributeNames", "ExpressionAttributeValues"})]

\* executeQuery up to its await: the command handed to client.send.
executeQueryCommand(p) ==
    LET commandInput == Pick(p, {"TableName", "KeyConditionExpression", "FilterExpression",
                                 "ExpressionAttributeNames", "ExpressionAttributeValues"})
    IN  IF "KeyConditionExpression" \in DOMAIN p /\ p.KeyConditionExpression # ""
        THEN [command |-> "QueryCommand", input |-> commandInput]
        ELSE [command |-> "ScanCommand", input |-> commandInput]

\* executeQuery after its await: response.Items || []
executeQueryItems(response) ==
    IF truthy(Get(response, "Items")) THEN Get(response, "Items") ELSE Arr(<<>>)

\* pagination?.sortBy
sortByOf(pagination) ==
    IF pagination.t = "object" THEN Get(pagination, "sortBy") ELSE Undefined

\* pagination.sortDirection !== 'desc'
scanForwardOf(pagination) == Get(pagination, "sortDirection") # Str("desc")

buildQueryParams(expr, pagination) ==
    LET has(k) == k \in DOMAIN expr
        sorted == /\ has("KeyConditionExpression") /\ expr.KeyConditionExpression # ""
                  /\ truthy(sortByOf(pagination))
        checked == IF sorted THEN validateFieldName(sortByOf(pagination).s)
                   ELSE Return(Undefined)
        p0 == [TableName |-> tableName]
        p1 == IF has("KeyConditionExpression") /\ expr.KeyConditionExpression # ""
              THEN Assign(p0, "KeyConditionExpression", expr.KeyConditionExpression)
              ELSE p0
        p2 == IF sorted
              THEN Assign(Assign(p1, "ExpressionAttributeNames",
                                 "#sortKey" :> sortByOf(pagination).s),
                          "ScanIndexForward", scanForwardOf(pagination))
              ELSE p1
        p3 == IF has("FilterExpression") /\ expr.FilterExpression # ""
              THEN Assign(p2, "FilterExpression", expr.FilterExpression)
              ELSE p2
        p4 == IF has("ExpressionAttributeNames")
              THEN Assign(p3, "ExpressionAttributeNames",
                          expr.ExpressionAttributeNames
                            @@ (IF "ExpressionAttributeNames" \in DOMAIN p3
                                THEN p3.ExpressionAttributeNames ELSE <<>>))
              ELSE p3
        p5 == IF has("ExpressionAttributeValues")
              THEN Assign(p4, "ExpressionAttributeValues", expr.ExpressionAttributeValues)
              ELSE p4
    IN  IF Threw(checked) THEN checked ELSE Return(p5)

\* BaseDatabaseService.calculatePaginationValues: limit is the given limit,
\* else the size (10 when absent); offset and page default to 0 and 1.
calculatePaginationValues(pagination) ==
    LET pg == IF pagination.t = "object" THEN pagination ELSE Obj(<<>>)
        size == Number(WithDefault(Get(pg, "size"), Num(100)))
    IN  [limit |-> IF Get(pg, "limit").t = "undefined" THEN size
                   ELSE Number(Get(pg, "limit")),
         offset |-> Number(WithDefault(Get(pg, "offset"), Num(0))),
         page |-> Number(WithDefault(Get(pg, "page"), Num(10)))]

\* The rest of prepareQueryParameters once the limit is known not to be 0:
\* the expression is built, given its table and returned with the
\* pagination values.  before is the calls made so far.
prepareExpression(query, pagination, calc, before) ==
    Const(buildFilterExpression(query.filters), LAMBDA built :
        IF Threw(built)
        THEN [outcome |-> built, calls |-> Append(before, "buildFilterExpression")]
        ELSE Const(buildQueryParams(built.value, pagination), LAMBDA expr :
                 IF Threw(expr)
                 THEN [outcome |-> expr,
                       calls |-> before \o <<"buildFilterExpression", "buildQueryParams">>]
                 ELSE [outcome |-> Return([params |-> Assign(expr.value, "TableName", tableName),
                                           limit |-> calc.limit, offset |-> calc.offset,
                                           page |-> calc.page, pagination |-> pagination]),
                       calls |-> before \o <<"buildFilterExpression", "buildQueryParams">>]))

\* prepareQueryParameters without the return on a limit of 0.
prepareQueryParametersWithoutShortCircuit(query) ==
    LET pagination == WithDefault(query.pagination, Obj(<<>>))
        validated == validatePagination(pagination)
        calc == calculatePaginationValues(pagination)
    IN  IF Threw(validated)
        THEN [outcome |-> validated, calls |-> <<"validatePagination">>]
        ELSE prepareExpression(query, pagination, calc,
                               <<"validatePagination", "calculatePaginationValues">>)

\* prepareQueryParameters building the expression before it validates the
\* pagination.
prepareQueryParametersBuildingFirst(query) ==
    LET pagination == WithDefault(query.pagination, Obj(<<>>))
        validated == validatePagination(pagination)
        calc == calculatePaginationValues(pagination)
    IN  Const(prepareExpression(query, pagination, calc, <<>>), LAMBDA prepared :
            IF Threw(prepared.outcome) /\ Len(prepared.calls) = 1
            THEN prepared
            ELSE IF Threw(validated)
            THEN [outcome |-> validated,
                  calls |-> <<"buildFilterExpression", "validatePagination">>]
            ELSE IF calc.limit = Num(0)
            THEN [outcome |-> Return([params |-> [TableName |-> tableName], limit |-> Num(0),
                                      offset |-> Num(0), page |-> Num(10),
                                      pagination |-> pagination]),
                  calls |-> <<"buildFilterExpression", "validatePagination",
                              "calculatePaginationValues">>]
            ELSE [outcome |-> prepared.outcome,
                  calls |-> <<"buildFilterExpression", "validatePagination",
                              "calculatePaginationValues", "buildQueryParams">>])

\* The outcome of prepareQueryParameters and the calls it made, in order.
\* query is [filters, pagination], pagination a JavaScript value.
prepareQueryParameters(query) ==
    LET pagination == WithDefault(query.pagination, Obj(<<>>))
        validated == validatePagination(pagination)
        calc == calculatePaginationValues(pagination)
    IN  IF Threw(validated)
        THEN [outcome |-> validated, calls |-> <<"validatePagination">>]
        ELSE IF calc.limit = Num(0)
        THEN [outcome |-> Return([params |-> [TableName |-> tableName], limit |-> Num(0),
                                  offset |-> Num(0), page |-> Num(10),
                                  pagination |-> pagination]),
              calls |-> <<"validatePagination", "calculatePaginationValues">>]
        ELSE prepareExpression(query, pagination, calc,
                               <<"validatePagination", "calculatePaginationValues">>)

\* handleError throwing a new error made of the message of the one it got.
handleErrorWrapping(error) ==
    Throw([name |-> "Error", message |-> "Query failed: " \o error.message])

\* handleError logs the error and throws it again, whatever its class.
handleError(error) == Throw(error)

\* The collation order of String.prototype.localeCompare over the
\* characters the model's strings are made of: symbols, digits, letters.
CollationOrder == " _-.,:;!\"#$%&()*+/<=>?@[\\]{}0123456789abcdefghijklmnopqrstuvwxyz"

\* The primary weight of a character: its place in the collation order
\* with its case ignored.
Weight(c) ==
    LET l == LowerChar(c)
    IN  IF InClass(l, CollationOrder)
        THEN CHOOSE i \in 1..Len(CollationOrder) : CharAt(CollationOrder, i) = l
        ELSE 0

\* The sign of a.localeCompare(b): by primary weights first, the shorter
\* string first when one is a prefix; equal letters differing in case are
\* ordered lower case first at the first such place.
localeCompare(a, b) ==
    LET n == IF Len(a) < Len(b) THEN Len(a) ELSE Len(b)
        diff == {i \in 1..n : Weight(CharAt(a, i)) # Weight(CharAt(b, i))}
        d == CHOOSE i \in diff : \A j \in diff : i <= j
        caseDiff == {i \in 1..n : CharAt(a, i) # CharAt(b, i)}
        c == CHOOSE i \in caseDiff : \A j \in caseDiff : i <= j
    IN  IF diff # {}
        THEN (IF Weight(CharAt(a, d)) < Weight(CharAt(b, d)) THEN -1 ELSE 1)
        ELSE IF Len(a) # Len(b) THEN (IF Len(a) < Len(b) THEN -1 ELSE 1)
        ELSE IF caseDiff = {} THEN 0
        ELSE IF InClass(CharAt(a, c), LowerCaseLetters) THEN -1 ELSE 1

\* The sort key of a raw item: a[sortKey] ? fromDynamoDBValue(a[sortKey]) : ""
sortKeyValue(item, sortKey) ==
    Const(Prop(item, sortKey), LAMBDA field :
        IF Threw(field) THEN field
        ELSE IF truthy(field.value) THEN fromDynamoDBValue(field.value)
        ELSE Return(Str("")))

\* The sign of the comparator's result for the decoded keys aVal and bVal
\* (a NaN difference counts as 0).
compareKeys(aVal, bVal, scanForward) ==
    Const(<<aVal, bVal>>, LAMBDA keys :
        LET a == keys[1]
            b == keys[2]
            forward ==
              IF typeof(a) = "string" /\ typeof(b) = "string"
              THEN localeCompare(a.s, b.s)
              ELSE IF typeof(a) = "number" /\ typeof(b) = "number"
              THEN (IF isNaN(a) \/ isNaN(b) THEN 0
                    ELSE IF a.x10 < b.x10 THEN -1
                    ELSE IF a.x10 > b.x10 THEN 1 ELSE 0)
              ELSE Const(<<String(a), String(b)>>,
                         LAMBDA texts : localeCompare(texts[1], texts[2]))
        IN  Const(forward, LAMBDA sign : IF scanForward THEN sign ELSE -sign))

\* Insertion of item x into the sorted sequence done: x goes after the last
\* element that does not compare greater than it.
RECURSIVE insertSorted(_, _, _, _)
insertSorted(done, x, sortKey, scanForward) ==
    IF Len(done) = 0 THEN <<x>>
    ELSE IF compareKeys(sortKeyValue(done[Len(done)], sortKey).value,
                        sortKeyValue(x, sortKey).value, scanForward) > 0
    THEN Const(SubSeq(done, 1, Len(done) - 1), LAMBDA front :
             Append(insertSorted(front, x, sortKey, scanForward), done[Len(done)]))
    ELSE Append(done, x)

\* [...items].sort(comparator): a stable insertion sort.
RECURSIVE sortItems(_, _, _)
sortItems(items, sortKey, scanForward) ==
    IF Len(items) = 0 THEN <<>>
    ELSE Const(sortItems(SubSeq(items, 1, Len(items) - 1), sortKey, scanForward),
               LAMBDA done : insertSorted(done, items[Len(items)], sortKey, scanForward))

\* Array.prototype.slice(start, end): a negative index counts from the end.
slice(a, start, end) ==
    LET clamp(i) == IF i < 0 THEN (IF Len(a) + i < 0 THEN 0 ELSE Len(a) + i)
                    ELSE IF i > Len(a) THEN Len(a) ELSE i
    IN  SubSeq(a, clamp(start) + 1, clamp(end))

\* The integer a JavaScript number holds.
IntOf(n) == n.x10 \div 10

\* The keys of the items are compared consistently: comparing a key with
\* itself gives 0, swapping the operands swaps the sign, keys that compare
\* equal compare alike with every key, and "before" is transitive.
ConsistentComparator(items, sortKey, scanForward) ==
    LET n == Len(items)
    IN  Const(<<>> \o [i \in 1..n |-> sortKeyValue(items[i], sortKey).value], LAMBDA key :
        Const([i \in 1..n |-> <<>> \o [j \in 1..n |->
                                         compareKeys(key[i], key[j], scanForward)]],
              LAMBDA cmp :
            /\ \A i \in 1..n : cmp[i][i] = 0
            /\ \A i, j \in 1..n : cmp[i][j] = -cmp[j][i]
            /\ \A i, j, k \in 1..n :
                  /\ cmp[i][j] = 0 => cmp[i][k] = cmp[j][k]
                  /\ (cmp[i][j] < 0 /\ cmp[j][k] < 0) => cmp[i][k] < 0))

\* The orders of the elements of items.
Reorderings(items) ==
    {[i \in 1..Len(items) |-> items[f[i]]] :
        f \in {g \in [1..Len(items) -> 1..Len(items)] :
                  \A i, j \in 1..Len(items) : g[i] = g[j] => i = j}}

\* What [...items].sort(comparator) can give: the stable sort when the
\* comparator is consistent over the items, and an order the engine chooses
\* when it is not.
sortOutcomes(items, sortKey, scanForward) ==
    IF ConsistentComparator(items, sortKey, scanForward)
    THEN {sortItems(items, sortKey, scanForward)}
    ELSE Reorderings(items)

\* processResults with the inclusive slice [offset, offset + limit].
processResultsOfInclusiveSlice(sorted, items, limit, offset, pagination) ==
    IF limit = Num(0) THEN Return(Arr(<<>>))
    ELSE IF IntOf(offset) >= Len(items.a) THEN Return(Arr(<<>>))
    ELSE LET sorting == truthy(sortByOf(pagination))
             sortKey == sortByOf(pagination).s
             keys == IF sorting
                     THEN FirstThrow(<<>> \o [i \in 1..Len(items.a) |->
                                                 sortKeyValue(items.a[i], sortKey)])
                     ELSE Return(Undefined)
             results == IF sorting THEN sorted ELSE items.a
         IN  Const(keys, LAMBDA decoded :
                 IF Threw(decoded) THEN decoded
                 ELSE Const(slice(results, IntOf(offset), IntOf(offset) + IntOf(limit) + 1),
                            LAMBDA sliced :
                          MapOrThrow([i \in 1..Len(sliced) |->
                                         mapDynamoDBItemToType(sliced[i])])))

\* processResults, sorted being what [...items].sort(comparator) gives.
\* items is the JavaScript array of raw items; limit and offset are numbers.
processResultsOf(sorted, items, limit, offset, pagination) ==
    IF limit = Num(0) THEN Return(Arr(<<>>))
    ELSE IF IntOf(offset) >= Len(items.a) THEN Return(Arr(<<>>))
    ELSE LET sorting == truthy(sortByOf(pagination))
             sortKey == sortByOf(pagination).s
             \* items.slice(0, 5).forEach(... fromDynamoDBValue(item[sortKey] || {S: ""}))
             \* and the comparator: each decodes the sort field of an item.
             keys == IF sorting
                     THEN FirstThrow(<<>> \o [i \in 1..Len(items.a) |->
                                                 sortKeyValue(items.a[i], sortKey)])
                     ELSE Return(Undefined)
             results == IF sorting THEN sorted ELSE items.a
         IN  Const(keys, LAMBDA decoded :
                 IF Threw(decoded) THEN decoded
                 ELSE Const(slice(results, IntOf(offset), IntOf(offset) + IntOf(limit)),
                            LAMBDA sliced :
                          MapOrThrow([i \in 1..Len(sliced) |->
                                         mapDynamoDBItemToType(sliced[i])])))

\* processResults over items the comparator orders consistently.
processResults(items, limit, offset, pagination) ==
    processResultsOf(sortItems(items.a, sortByOf(pagination).s, scanForwardOf(pagination)),
                     items, limit, offset, pagination)

\* The array the caller passed when the sort works on it and not on a copy.
processResultsItemsSortedInPlace(items, limit, offset, pagination) ==
    IF limit = Num(0) \/ IntOf(offset) >= Len(items.a) THEN items
    ELSE IF truthy(sortByOf(pagination))
    THEN Arr(sortItems(items.a, sortByOf(pagination).s, scanForwardOf(pagination)))
    ELSE items

\* The array the caller passed as the call leaves it: slice(0, 5),
\* [...items] and slice(offset, endIndex) copy, and the sort works on the
\* copy.
processResultsItems(items, limit, offset, pagination) == items

\* The decoding calls of processResults, each with the raw item it reads:
\* fromDynamoDBValue for the first five items and, in the comparator, for
\* every item of two or more that has the sort field; mapDynamoDBItemToType
\* for every item of the slice of results.
processResultsDecodes(results, items, limit, offset, pagination) ==
    IF limit = Num(0) THEN {}
    ELSE IF IntOf(offset) >= Len(items.a) THEN {}
    ELSE LET sorting == truthy(sortByOf(pagination))
             sortKey == sortByOf(pagination).s
             n == Len(items.a)
             sliced == slice(results, IntOf(offset), IntOf(offset) + IntOf(limit))
         IN  (IF sorting
              THEN {<<"fromDynamoDBValue", items.a[i]>> : i \in 1..(IF n < 5 THEN n ELSE 5)}
                     \cup {<<"fromDynamoDBValue", items.a[i]>> :
                              i \in {j \in 1..n : n >= 2 /\ truthy(Prop(items.a[j], sortKey).value)}}
              ELSE {})
               \cup {<<"mapDynamoDBItemToType", sliced[i]>> : i \in 1..Len(sliced)}

-----------------------------------------------------------------------------
(* The state: pc is the position of the call under way, input its          *)
(* arguments, output its outcome once it has one, params what              *)
(* prepareQueryParameters returned to the fetch, sent the commands handed  *)
(* to the store's client, calls the collaborators called so far.           *)

Pending == [pending |-> TRUE]

\* No request under way: the fields only a fetch uses.
Idle == params = <<>> /\ sent = <<>> /\ calls = <<>>

-----------------------------------------------------------------------------
(* validateFieldName on dotted paths.                                      *)

\* The longest run of segments drawn freely from the sample segments.
MaxSegments == 2

\* Segments that match VALID_FIELD_REGEX and are at most MAX_FIELD_LENGTH
\* characters long.
GoodSegments ==
    {"a", "id", "validField", "a1_b", "B", "updatedAt", "Dropdown",
     repeat("a", MAX_FIELD_LENGTH)}

BadSegments == {"", "1a", "a$b", "x;y", "_a", repeat("a", MAX_FIELD_LENGTH + 1)}

SegmentLists ==
    UNION {[1..n -> GoodSegments \cup BadSegments] : n \in 1..MaxSegments}
      \cup {[i \in 1..n |-> IF i = n THEN last ELSE "a"] :
                n \in 3..(MAX_FIELD_DEPTH + 1),
                last \in {"a", "Dropdown", "1a", repeat("a", MAX_FIELD_LENGTH)}}

InitField ==
    /\ pc = "start"
    /\ input \in {[segments |-> segs] : segs \in SegmentLists}
    /\ output = Pending
    /\ Idle

CallValidateFieldName ==
    /\ pc = "start"
    /\ output' = validateFieldName(join(input.segments, "."))
    /\ pc' = "done"
    /\ UNCHANGED <<input, params, sent, calls>>

NextField == CallValidateFieldName

SpecField == InitField /\ [][NextField]_vars

\* A dotted path of at most 20 segments, each of at most 255 characters and
\* matching the segment regex.
WellFormedPath(segs) ==
    /\ Len(segs) <= 20
    /\ \A i \in 1..Len(segs) : segs[i] \in GoodSegments

\* The path contains, case-insensitively, one of the word tokens of the
\* denylist.
HasDenylistedWord(segs) ==
    \E w \in {"__proto__", "constructor", "prototype", "drop", "delete", "insert", "update"} :
        includes(toLowerCase(join(segs, ".")), w)

\* C10 as stated: validateFieldName raises no error for any dotted path of
\* at most 20 segments whose segments are at most 255 characters long and
\* match ^[A-Za-z][A-Za-z0-9_]*$.
C10_AcceptsEveryWellFormedPath ==
    (pc = "done" /\ WellFormedPath(input.segments)) => ~Threw(output)

\* C10 amended: validateFieldName raises no error for any such path that
\* contains, case-insensitively, none of the denylisted words __proto__,
\* constructor, prototype, DROP, DELETE, INSERT, UPDATE.
C10_AcceptsWellFormedPathWithoutDenylistedWord ==
    (pc = "done" /\ WellFormedPath(input.segments) /\ ~HasDenylistedWord(input.segments))
        => ~Threw(output)

\* A path of 20 segments, one of them 255 characters long, was accepted.
C10_Witness ==
    /\ pc = "done"
    /\ Len(input.segments) = 20
    /\ \E i \in 1..20 : Len(input.segments[i]) = 255
    /\ ~Threw(output)

-----------------------------------------------------------------------------
(* validateValue on nested values, alone and through                       *)
(* buildFilterExpression.                                                  *)

\* How many times a sample value is wrapped in an array or a mapping.
MaxDepth == 2

LeafValues ==
    {Str("safeString"), Str("$where"), Str("a$NEb"), Str("x__Proto__y"), Str(""),
     Str("say \"$gt\""), Str("ne"), Num(1230), Num(15), Bool(TRUE), Null, Undefined,
     PaddedStr("", MAX_VALUE_LENGTH), PaddedStr("", MAX_VALUE_LENGTH + 1),
     Arr(<<>>), Obj(<<>>),
     [t |-> "object", e |-> <<>>, h |-> <<"$where">>],
     [t |-> "object", e |-> <<>>, h |-> <<"note">>]}

Wrappings(v) ==
    {Arr(<<Num(10), v>>),
     Obj(<<Entry("safeKey", v)>>),
     Obj(<<Entry("nested", Str("ok")), Entry("$ne", v)>>),
     Obj(<<Entry("Constructor.prototype", v)>>)}

RECURSIVE ValuesOfDepth(_)
ValuesOfDepth(d) ==
    IF d = 0 THEN LeafValues
    ELSE ValuesOfDepth(d - 1) \cup UNION {Wrappings(v) : v \in ValuesOfDepth(d - 1)}

InitValue ==
    /\ pc = "start"
    /\ input \in {[value |-> v] : v \in ValuesOfDepth(MaxDepth)}
    /\ output = Pending
    /\ Idle

CallValidateValue ==
    /\ pc = "start"
    /\ output' = validateValue(input.value)
    /\ pc' = "validated"
    /\ UNCHANGED <<input, params, sent, calls>>

\* buildFilterExpression([{field: 'validField', operator: '=', value}])
CallBuildWithValue ==
    /\ pc = "start"
    /\ output' = buildFilterExpression(
                     <<[field |-> "validField", operator |-> "=", value |-> input.value]>>)
    /\ pc' = "built"
    /\ UNCHANGED <<input, params, sent, calls>>

NextValue == CallValidateValue \/ CallBuildWithValue

SpecValue == InitValue /\ [][NextValue]_vars

\* The string s contains a denylisted token, case-insensitively.
TokenInString(s) ==
    \E i \in 1..Len(dangerousPatterns) :
        includes(toLowerCase(s), toLowerCase(dangerousPatterns[i]))

\* A denylisted token occurs in a string or in a mapping key of the value,
\* at any depth (an entry whose value is undefined is not serialized).
RECURSIVE TokenIn(_)
TokenIn(v) ==
    CASE v.t = "string" -> TokenInString(v.s)
      [] v.t = "array" -> \E i \in 1..Len(v.a) : TokenIn(v.a[i])
      [] v.t = "object" ->
            \E i \in 1..Len(v.e) :
                v.e[i].v.t # "undefined" /\ (TokenInString(v.e[i].k) \/ TokenIn(v.e[i].v))
      [] OTHER -> FALSE

IsValidationError(r) == Threw(r) /\ r.error.name = "DynamoValidationError"

\* C8: validateValue, and buildFilterExpression for a predicate carrying the
\* value, raise a validation error for every value in which a denylisted
\* token occurs, case-insensitively, in a mapping key or inside a string at
\* any nesting depth.
C8_TokenIsRejected ==
    (pc \in {"validated", "built"} /\ TokenIn(input.value)) => IsValidationError(output)

\* A token in a key two levels down, in another case than the denylist's,
\* was rejected by buildFilterExpression.
C8_Witness ==
    /\ pc = "built"
    /\ input.value.t = "object"
    /\ \A i \in 1..Len(input.value.e) :
          /\ ~TokenInString(input.value.e[i].k)
          /\ input.value.e[i].v.t = "object"
          /\ \E j \in 1..Len(input.value.e[i].v.e) :
                input.value.e[i].v.e[j].k = "Constructor.prototype"
    /\ IsValidationError(output)

\* A string, number, boolean, array or plain mapping (every own property
\* enumerable), the shapes C9 speaks of.
IsPrimitiveArrayOrMapping(v) ==
    \/ v.t \in {"string", "number", "boolean", "array"}
    \/ v.t = "object" /\ "h" \notin DOMAIN v

\* C9 as stated: validateValue raises no error for any primitive, array or
\* plain mapping that is free of denylisted tokens.
C9_AcceptsEveryTokenFreeValue ==
    (pc = "validated" /\ IsPrimitiveArrayOrMapping(input.value) /\ ~TokenIn(input.value))
        => ~Threw(output)

\* A value validateValue's structural rules allow: a string of at most
\* 400000 characters, a number, a boolean, a non-empty array of such
\* values, or a plain mapping of such values.
RECURSIVE WithinStructuralLimits(_)
WithinStructuralLimits(v) ==
    CASE v.t = "string" -> length(v) <= 400000
      [] v.t \in {"number", "boolean"} -> TRUE
      [] v.t = "array" ->
            Len(v.a) > 0 /\ \A i \in 1..Len(v.a) : WithinStructuralLimits(v.a[i])
      [] v.t = "object" ->
            "h" \notin DOMAIN v /\ \A i \in 1..Len(v.e) : WithinStructuralLimits(v.e[i].v)
      [] OTHER -> FALSE

\* C9 amended: validateValue raises no error for any string of at most
\* 400000 characters, number, boolean, non-empty array or plain mapping
\* that is free of denylisted tokens and whose elements and values are, at
\* every depth, again such values (none null or undefined).
C9_AcceptsTokenFreeValueWithinLimits ==
    (pc = "validated" /\ WithinStructuralLimits(input.value) /\ ~TokenIn(input.value))
        => ~Threw(output)

\* A mapping holding an array that holds a string of exactly 400000
\* characters was accepted.
C9_Witness ==
    /\ pc = "validated"
    /\ input.value.t = "object"
    /\ Len(input.value.e) = 1
    /\ input.value.e[1].v.t = "array"
    /\ \E i \in 1..Len(input.value.e[1].v.a) :
          /\ input.value.e[1].v.a[i].t = "string"
          /\ length(input.value.e[1].v.a[i]) = 400000
    /\ ~Threw(output)

-----------------------------------------------------------------------------
(* validatePagination on pagination objects.                               *)

\* What a pagination field is given as; Undefined is an absent field.
PaginationFieldValues ==
    {Undefined, Num(10), Num(0), Num(15), Str("1"), Str("1.5"), Str("invalid"), Str(""),
     Bool(TRUE)}

\* The object with the entries of kvs whose value is not undefined.
ObjOf(kvs) == Obj(SelectSeq(kvs, LAMBDA en : en.v.t # "undefined"))

PaginationObjects ==
    {ObjOf(<<Entry("page", p), Entry("size", s), Entry("limit", l), Entry("offset", o)>>) :
        p \in PaginationFieldValues, s \in {Undefined, Num(50), Num(15), Str("invalid")},
        l \in PaginationFieldValues, o \in PaginationFieldValues}

InitPagination ==
    /\ pc = "start"
    /\ input \in {[pagination |-> pg] : pg \in PaginationObjects \cup {Undefined, Null}}
    /\ output = Pending
    /\ Idle

CallValidatePagination ==
    /\ pc = "start"
    /\ output' = validatePagination(input.pagination)
    /\ pc' = "done"
    /\ UNCHANGED <<input, params, sent, calls>>

NextPagination == CallValidatePagination

SpecPagination == InitPagination /\ [][NextPagination]_vars

\* The value is a number, or a string that spells one.
IsNumeric(v) ==
    \/ v.t = "number" /\ ~isNaN(v)
    \/ v.t = "string" /\ \E n \in {1, 2} :
          /\ Len(split(v.s, ".")) = n
          /\ \A i \in 1..n : isDigits(split(v.s, ".")[i])

\* The value is a number with a fractional part, or a string spelling one.
IsFractional(v) ==
    \/ v.t = "number" /\ ~isNaN(v) /\ v.x10 % 10 # 0
    \/ v.t = "string" /\ IsNumeric(v) /\ Len(split(v.s, ".")) = 2
          /\ digitsValue(split(v.s, ".")[2]) # 0

PaginationFields == {"page", "size", "limit", "offset"}

Present(pg, f) == pg.t = "object" /\ Get(pg, f).t # "undefined"

IntegerRequirementError(r) ==
    /\ Threw(r)
    /\ r.error.message \in {"Page must be an integer", "Size must be an integer",
                            "Limit must be an integer", "Offset must be an integer"}

\* C6: validatePagination raises a "<field> must be an integer" error
\* whenever a present page, size, limit or offset is fractional or
\* non-numeric, and raises nothing when every present field is an integer.
C6_RejectsFractionalAndNonNumeric ==
    pc = "done" =>
        LET pg == input.pagination
            bad(f) == Present(pg, f) /\ (IsFractional(Get(pg, f)) \/ ~IsNumeric(Get(pg, f)))
        IN  /\ (\E f \in PaginationFields : bad(f)) => IntegerRequirementError(output)
            /\ (\A f \in PaginationFields : ~bad(f)) => ~Threw(output)

-----------------------------------------------------------------------------
(* The codec: a value encoded by toDynamoDBValue and decoded again by      *)
(* fromDynamoDBValue.                                                      *)

\* How many times a sample value is wrapped in an array or a mapping.
MaxNesting == 2

CodecLeaves ==
    {Str("active"), Str("42"), Str(""), Num(1230), Num(15), Num(-5), Num(0),
     Bool(TRUE), Bool(FALSE), Arr(<<>>)}

\* A homogeneous string array, a homogeneous number array, a mixed array,
\* and two mappings as JSON.parse makes them.
CodecWrappings(v) ==
    {Arr(<<Str("a"), Str("b"), Str("a")>>),
     Arr(<<Num(20), Num(15), Num(-30)>>),
     Arr(<<Num(10), v, Bool(FALSE)>>),
     Obj(<<Entry("name", v), Entry("count", Num(70))>>),
     Obj(<<Entry("__proto__", v)>>)}

RECURSIVE CodecValues(_)
CodecValues(d) ==
    IF d = 0 THEN CodecLeaves
    ELSE CodecValues(d - 1) \cup UNION {CodecWrappings(v) : v \in CodecValues(d - 1)}

InitCodec ==
    /\ pc = "start"
    /\ input \in {[value |-> v] : v \in CodecValues(MaxNesting)}
    /\ output = Pending
    /\ Idle

Encode ==
    /\ pc = "start"
    /\ output' = toDynamoDBValue(input.value)
    /\ pc' = "encoded"
    /\ UNCHANGED <<input, params, sent, calls>>

Decode ==
    /\ pc = "encoded"
    /\ ~Threw(output)
    /\ output' = fromDynamoDBValue(output.value)
    /\ pc' = "decoded"
    /\ UNCHANGED <<input, params, sent, calls>>

NextCodec == Encode \/ Decode

SpecCodec == InitCodec /\ [][NextCodec]_vars

\* A canonical value: a string, a number, a boolean, a non-empty array of
\* canonical values (homogeneous or mixed), or a string-keyed mapping of
\* canonical values.
RECURSIVE IsCanonicalValue(_)
IsCanonicalValue(v) ==
    CASE v.t \in {"string", "number", "boolean"} -> TRUE
      [] v.t = "array" ->
            Len(v.a) > 0 /\ \A i \in 1..Len(v.a) : IsCanonicalValue(v.a[i])
      [] v.t = "object" ->
            "h" \notin DOMAIN v /\ \A i \in 1..Len(v.e) : IsCanonicalValue(v.e[i].v)
      [] OTHER -> FALSE

\* C2: decoding the encoding of a canonical value gives the value back: an
\* equal string, number or boolean, an array equal element by element (what
\* a homogeneous and a mixed array both come to), a mapping with the same
\* keys and equal values.
C2_RoundTrip ==
    (pc = "decoded" /\ IsCanonicalValue(input.value)) => output = Return(input.value)

-----------------------------------------------------------------------------
(* buildFilterExpression on filter lists.                                  *)

\* The longest filter list drawn freely from the sample filters.
MaxFilters == 2

Filter(field, operator, value) == [field |-> field, operator |-> operator, value |-> value]

SampleFilters ==
    {Filter("id", "=", Str("123")),
     Filter("id", "=", Str("456")),
     Filter("id", ">", Num(50)),
     Filter("status", "=", Str("active")),
     Filter("user.profile.age", ">=", Num(180)),
     Filter("tags", "in", Arr(<<Str("a"), Str("b"), Str("c")>>)),
     Filter("role", "not in", Str("admin")),
     Filter("name", "like", Str("jo")),
     Filter("status", "=", Str("$where")),
     Filter("a$b", "=", Num(10)),
     Filter("status", "regex", Str("x")),
     Filter("status", "toString", Str("x"))}

\* Thirteen filters, the partition key's among them, so that the residual
\* positions run to 11: at position 1 a path of MAX_FIELD_DEPTH segments
\* with a list of twelve elements.
DeepFilters ==
    <<Filter("status", "!=", Str("closed")),
      Filter("id", "=", Str("123")),
      Filter(join([i \in 1..MAX_FIELD_DEPTH |-> "a"], "."), "in",
             Arr([i \in 1..12 |-> Num(10 * i)])),
      Filter("tags", "not in", Arr(<<Str("u"), Str("v")>>)),
      Filter("b.c", "<=", Num(20)),
      Filter("name", "not like", Str("x")),
      Filter("id", "=", Str("456")),
      Filter("d", ">", Num(30)),
      Filter("e", "=", Bool(TRUE)),
      Filter("f", "<", Num(10)),
      Filter("g", "=", Str("w")),
      Filter("h.i", "=", Num(40)),
      Filter("j", ">=", Num(50))>>

\* A filter before the first equality on the partition key and a second
\* such equality after it.
TwoPkEqualities ==
    <<Filter("status", "=", Str("active")),
      Filter("id", "=", Str("123")),
      Filter("id", "=", Str("456"))>>

FilterLists ==
    UNION {[1..n -> SampleFilters] : n \in 0..MaxFilters}
      \cup {SubSeq(DeepFilters, 1, n) : n \in 4..Len(DeepFilters)}
      \cup {TwoPkEqualities}

InitBuild ==
    /\ pc = "start"
    /\ input \in {[filters |-> fs] : fs \in FilterLists}
    /\ output = Pending
    /\ Idle

CallBuildFilterExpression ==
    /\ pc = "start"
    /\ output' = buildFilterExpression(input.filters)
    /\ pc' = "expression"
    /\ UNCHANGED <<input, params, sent, calls>>

NextBuild == CallBuildFilterExpression

SpecBuild == InitBuild /\ [][NextBuild]_vars

\* The positions of the equality predicates on the partition key.
PkEqualities(fs) == {i \in 1..Len(fs) : fs[i].field = "id" /\ fs[i].operator = "="}

\* The first of them.
FirstPkEquality(fs) == CHOOSE i \in PkEqualities(fs) : \A j \in PkEqualities(fs) : i <= j

\* Every predicate but that first one, in input order.
Residual(fs) ==
    IF PkEqualities(fs) = {} THEN fs
    ELSE SubSeq(fs, 1, FirstPkEquality(fs) - 1) \o SubSeq(fs, FirstPkEquality(fs) + 1, Len(fs))

RECURSIVE SumOf(_)
SumOf(ns) == IF Len(ns) = 0 THEN 0 ELSE ns[1] + SumOf(Tail(ns))

\* buildFilterExpression accepted a non-empty list.
Accepted == pc = "expression" /\ Len(input.filters) > 0 /\ ~Threw(output)

\* How many values the predicate binds: one for each element of an in or
\* not-in list, one otherwise.
BoundValues(f) ==
    IF f.operator \in {"in", "not in"} /\ f.value.t = "array" THEN Len(f.value.a) ELSE 1

\* The placeholder map binds the placeholder to the value.
Binds(map, placeholder, v) == placeholder \in DOMAIN map /\ map[placeholder] = v

\* C1: in the expression built from an accepted non-empty filter list, each
\* (residual position, segment index) pair has its own name placeholder
\* #key{i}_{j}, bound to that segment, and each (residual position, element
\* index) pair its own value placeholder, beside #pk and :pkVal: there are
\* as many bindings as pairs, so none has overwritten another.
C1_PlaceholdersAreDistinct ==
    Accepted =>
        LET names == output.value.ExpressionAttributeNames
            values == output.value.ExpressionAttributeValues
            rest == Residual(input.filters)
            pk == IF PkEqualities(input.filters) = {} THEN 0 ELSE 1
            segments(i) == split(rest[i].field, ".")
        IN  /\ Cardinality(DOMAIN names)
                 = pk + SumOf([i \in 1..Len(rest) |-> Len(segments(i))])
            /\ Cardinality(DOMAIN values)
                 = pk + SumOf([i \in 1..Len(rest) |-> BoundValues(rest[i])])
            /\ \A i \in 1..Len(rest) : \A j \in 1..Len(segments(i)) :
                  Binds(names, "#key" \o ToString(i - 1) \o "_" \o ToString(j - 1),
                        segments(i)[j])

\* Thirteen filters were accepted: twelve residual positions, at position 1
\* a path of twenty segments and a list of twelve elements.
C1_Witness ==
    /\ Accepted
    /\ Len(input.filters) = 13
    /\ Len(Residual(input.filters)) = 12
    /\ Len(split(Residual(input.filters)[2].field, ".")) = 20
    /\ BoundValues(Residual(input.filters)[2]) = 12
    /\ Cardinality(DOMAIN output.value.ExpressionAttributeNames) = 34
    /\ Cardinality(DOMAIN output.value.ExpressionAttributeValues) = 25

\* C3: of an accepted non-empty list, the first equality predicate on the
\* partition key, and no other predicate, is the key condition "#pk = :pkVal"
\* with #pk bound to the key's name and :pkVal to the encoded value; the
\* other predicates, later equalities on the key included, are the filter
\* expression: their sub-expressions, numbered by place among them, joined
\* by " AND " in input order.  Without such a predicate there is no
\* KeyConditionExpression, and with it alone no FilterExpression.
C3_FirstPkEqualityIsPromoted ==
    Accepted =>
        LET fs == input.filters
            e == output.value
            rest == Residual(fs)
            fresh == [ExpressionAttributeNames |-> <<>>, ExpressionAttributeValues |-> <<>>]
            text(i) == buildSubExpression(fresh, rest[i].field, rest[i].operator,
                                          rest[i].value, i - 1).value.text
        IN  /\ PkEqualities(fs) # {} =>
                  /\ "KeyConditionExpression" \in DOMAIN e
                  /\ e.KeyConditionExpression = "#pk = :pkVal"
                  /\ Binds(e.ExpressionAttributeNames, "#pk", "id")
                  /\ Binds(e.ExpressionAttributeValues, ":pkVal",
                           toDynamoDBValue(fs[FirstPkEquality(fs)].value).value)
            /\ PkEqualities(fs) = {} =>
                  /\ "KeyConditionExpression" \notin DOMAIN e
                  /\ "#pk" \notin DOMAIN e.ExpressionAttributeNames
                  /\ ":pkVal" \notin DOMAIN e.ExpressionAttributeValues
            /\ Len(rest) > 0 =>
                  /\ "FilterExpression" \in DOMAIN e
                  /\ e.FilterExpression = join([i \in 1..Len(rest) |-> text(i)], " AND ")
                  /\ \A i \in 1..Len(rest) :
                        Binds(e.ExpressionAttributeNames, "#key" \o ToString(i - 1) \o "_0",
                              split(rest[i].field, ".")[1])
            /\ Len(rest) = 0 => "FilterExpression" \notin DOMAIN e

\* A list with a filter before the first equality on the partition key and a
\* second such equality after it: the first is the key condition, the other
\* two are the residual filters 0 and 1.
C3_Witness ==
    /\ Accepted
    /\ input.filters = TwoPkEqualities
    /\ output.value.KeyConditionExpression = "#pk = :pkVal"
    /\ output.value.ExpressionAttributeValues[":pkVal"] = AttributeValue("S", Str("123"))
    /\ output.value.FilterExpression = "#key0_0 = :val0 AND #key1_0 = :val1"
    /\ output.value.ExpressionAttributeValues[":val1"] = AttributeValue("S", Str("456"))

-----------------------------------------------------------------------------
(* fetchWithFiltersAndPaginationDynamoDb: one fetch of the service, from   *)
(* the query to the paginated result, with the store answering or failing. *)

QueryFilters ==
    {<<>>,
     <<Filter("id", "=", Str("123"))>>,
     <<Filter("status", "=", Str("active"))>>,
     <<Filter("status", "=", Str("active")), Filter("id", "=", Str("123"))>>,
     <<Filter("id", ">", Num(50))>>,
     TwoPkEqualities,
     <<Filter("a$b", "=", Num(10))>>,
     <<Filter("id", "=", Str("123")), Filter("status", "=", Str("$where"))>>,
     <<Filter("test", "invalid", Str("test"))>>,
     <<Filter("id", "=", Null)>>}

QueryPaginations ==
    {Undefined,
     Obj(<<>>),
     Obj(<<Entry("limit", Num(100))>>),
     Obj(<<Entry("limit", Num(0))>>),
     Obj(<<Entry("size", Num(0))>>),
     Obj(<<Entry("limit", Num(0)), Entry("sortBy", Str("a$b"))>>),
     Obj(<<Entry("page", Num(15))>>),
     Obj(<<Entry("limit", Num(0)), Entry("offset", Num(25))>>),
     Obj(<<Entry("offset", Str("invalid"))>>),
     Obj(<<Entry("limit", Num(20)), Entry("offset", Num(10))>>),
     Obj(<<Entry("offset", Num(10000))>>),
     Obj(<<Entry("limit", Num(100)), Entry("sortBy", Str("name"))>>),
     Obj(<<Entry("sortBy", Str("name")), Entry("sortDirection", Str("desc"))>>),
     Obj(<<Entry("limit", Num(100)), Entry("sortBy", Str("a$b"))>>)}

\* What the store's client answers: a page of raw items, none, or a
\* response without Items.
StoreResponses ==
    {Obj(<<Entry("Items", Arr(<<
         Obj(<<Entry("id", AttributeValue("S", Str("1"))),
               Entry("name", AttributeValue("S", Str("b")))>>),
         Obj(<<Entry("id", AttributeValue("S", Str("2"))),
               Entry("name", AttributeValue("S", Str("a")))>>),
         Obj(<<Entry("id", AttributeValue("N", Str("3")))>>)>>))>>),
     Obj(<<Entry("Items", Arr(<<>>))>>),
     Obj(<<>>)}

\* What the store's client rejects with.
StoreErrors == {[name |-> "Error", message |-> "DynamoDB Error"]}

Init ==
    /\ pc = "start"
    /\ input \in {[query |-> [filters |-> fs, pagination |-> pg]] :
                      fs \in QueryFilters, pg \in QueryPaginations}
    /\ output = Pending
    /\ Idle

\* The fetch up to the executor: the query is prepared; an error goes
\* through handleError, and a limit of 0 ends the fetch with no data.
Prepare ==
    /\ pc = "start"
    /\ \E prepared \in {prepareQueryParameters(input.query)} :
           IF Threw(prepared.outcome)
           THEN /\ output' = handleError(prepared.outcome.error)
                /\ calls' = Append(prepared.calls, "handleError")
                /\ pc' = "failed"
                /\ UNCHANGED params
           ELSE IF prepared.outcome.value.limit = Num(0)
           THEN /\ output' = Return([data |-> <<>>])
                /\ calls' = prepared.calls
                /\ pc' = "done"
                /\ params' = prepared.outcome.value
           ELSE /\ params' = prepared.outcome.value
                /\ calls' = prepared.calls
                /\ pc' = "prepared"
                /\ UNCHANGED output
    /\ UNCHANGED <<input, sent>>

\* executeQuery up to its await: one command is handed to the client.
ExecuteQuery ==
    /\ pc = "prepared"
    /\ sent' = Append(sent, executeQueryCommand(params.params))
    /\ calls' = Append(calls, "executeQuery")
    /\ pc' = "awaiting"
    /\ UNCHANGED <<input, output, params>>

\* The client resolves: executeQuery returns the items, processResults
\* makes the data of them, and what it throws goes through handleError.
StoreResolves ==
    /\ pc = "awaiting"
    /\ \E response \in StoreResponses :
        \E processed \in {processResults(executeQueryItems(response), params.limit,
                                         params.offset, params.pagination)} :
              IF Threw(processed)
              THEN /\ output' = handleError(processed.error)
                   /\ calls' = calls \o <<"processResults", "handleError">>
                   /\ pc' = "failed"
              ELSE /\ output' = Return([data |-> processed.value.a])
                   /\ calls' = Append(calls, "processResults")
                   /\ pc' = "done"
    /\ UNCHANGED <<input, params, sent>>

\* The client rejects: the error goes through handleError to the caller.
StoreRejects ==
    /\ pc = "awaiting"
    /\ \E error \in StoreErrors : output' = handleError(error)
    /\ calls' = Append(calls, "handleError")
    /\ pc' = "failed"
    /\ UNCHANGED <<input, params, sent>>

Next == Prepare \/ ExecuteQuery \/ StoreResolves \/ StoreRejects

Spec == Init /\ [][Next]_vars

\* C4: a fetch hands the store at most one command; it is a QueryCommand
\* when the prepared expression has a key condition and a ScanCommand
\* otherwise, hence a QueryCommand exactly when the filters hold an equality
\* predicate on the partition key.
C4_QueryExactlyWithKeyCondition ==
    /\ Len(sent) <= 1
    /\ (pc \in {"prepared", "start"} => sent = <<>>)
    /\ (pc = "awaiting" => Len(sent) = 1)
    /\ Len(sent) = 1 =>
          /\ sent[1].command \in {"QueryCommand", "ScanCommand"}
          /\ sent[1].command = "QueryCommand"
                <=> "KeyConditionExpression" \in DOMAIN params.params
          /\ sent[1].command = "QueryCommand"
                <=> PkEqualities(input.query.filters) # {}

\* A QueryCommand was sent for filters whose equality on the partition key
\* is not the first predicate, and its input has the key condition.
C4_Witness ==
    /\ pc = "done"
    /\ input.query.filters = <<Filter("status", "=", Str("active")),
                               Filter("id", "=", Str("123"))>>
    /\ Len(sent) = 1
    /\ sent[1].command = "QueryCommand"
    /\ sent[1].input.KeyConditionExpression = "#pk = :pkVal"

\* The pagination is valid and the limit calculated from it is 0.
EffectiveLimitIsZero(query) ==
    /\ ~Threw(validatePagination(WithDefault(query.pagination, Obj(<<>>))))
    /\ calculatePaginationValues(WithDefault(query.pagination, Obj(<<>>))).limit = Num(0)

\* C5: a fetch of a query whose effective limit is 0 ends with no data,
\* without buildFilterExpression having been called and without a command
\* handed to the store.
C5_LimitZeroShortCircuits ==
    EffectiveLimitIsZero(input.query) =>
        /\ sent = <<>>
        /\ \A i \in 1..Len(calls) : calls[i] \notin {"buildFilterExpression", "executeQuery"}
        /\ pc \in {"start", "done"}
        /\ pc = "done" => output = Return([data |-> <<>>])

\* A fetch with limit 0 and a filter that would not pass validation ended
\* with no data.
C5_Witness ==
    /\ pc = "done"
    /\ input.query.pagination = Obj(<<Entry("limit", Num(0))>>)
    /\ input.query.filters = <<Filter("a$b", "=", Num(10))>>
    /\ output = Return([data |-> <<>>])
    /\ sent = <<>>

\* C7: a fetch that failed with a validation error has handed no command to
\* the store; and a fetch with an invalid pagination fails with the
\* pagination's error, with no expression built, whatever its filters.
C7_ValidationBeforeStore ==
    /\ (pc = "failed" /\ IsValidationError(output)) => sent = <<>>
    /\ (pc # "start" /\ Threw(validatePagination(WithDefault(input.query.pagination, Obj(<<>>)))))
          => /\ pc = "failed"
             /\ output = validatePagination(WithDefault(input.query.pagination, Obj(<<>>)))
             /\ \A i \in 1..Len(calls) : calls[i] # "buildFilterExpression"
             /\ sent = <<>>

\* A fetch whose pagination and whose filter are both invalid failed with the
\* pagination's error.
C7_Witness ==
    /\ pc = "failed"
    /\ input.query.pagination = Obj(<<Entry("page", Num(15))>>)
    /\ input.query.filters = <<Filter("a$b", "=", Num(10))>>
    /\ output = Throw(DynamoValidationError("Page must be an integer"))
    /\ sent = <<>>

-----------------------------------------------------------------------------
(* Decoding of what the store returns, well formed or not.                 *)

\* How many times a raw value is nested in a list or a map tag.
MaxRawNesting == 1

\* What a tag may hold.
RawPayloads ==
    {Null, Str("x"), Str("12.5"), Num(10), Bool(FALSE), Arr(<<>>),
     Arr(<<Str("1"), Str("abc")>>), Arr(<<Null>>), Obj(<<>>)}

RawTags == {"S", "N", "BOOL", "SS", "NS", "M", "L", "UNKNOWN_TYPE"}

RECURSIVE RawValues(_)
RawValues(d) ==
    IF d = 0
    THEN RawPayloads \cup {Undefined}
           \cup {AttributeValue(tag, payload) : tag \in RawTags, payload \in RawPayloads}
    ELSE RawValues(d - 1)
           \cup {AttributeValue("L", Arr(<<AttributeValue("S", Str("ok")), v>>)) :
                    v \in RawValues(d - 1)}
           \cup {AttributeValue("M", Obj(<<Entry("inner", v)>>)) : v \in RawValues(d - 1)}

\* The raw item of the test 'should handle unrecognized attribute types',
\* with the raw value in the place of its field weird.
ItemWith(raw) ==
    Obj(<<Entry("id", AttributeValue("N", Str("1"))),
          Entry("weird", raw),
          Entry("normal", AttributeValue("S", Str("test")))>>)

InitDecode ==
    /\ pc = "start"
    /\ input \in {[raw |-> v] : v \in RawValues(MaxRawNesting)}
    /\ output = Pending
    /\ Idle

CallFromDynamoDBValue ==
    /\ pc = "start"
    /\ output' = fromDynamoDBValue(input.raw)
    /\ pc' = "value"
    /\ UNCHANGED <<input, params, sent, calls>>

\* mapDynamoDBItemToType on the raw value itself, as were it an item.
CallMapDynamoDBItemToType ==
    /\ pc = "start"
    /\ output' = mapDynamoDBItemToType(input.raw)
    /\ pc' = "mapping"
    /\ UNCHANGED <<input, params, sent, calls>>

\* mapDynamoDBItemToType on an item that holds the raw value in a field.
CallMapItemWith ==
    /\ pc = "start"
    /\ output' = mapDynamoDBItemToType(ItemWith(input.raw))
    /\ pc' = "item"
    /\ UNCHANGED <<input, params, sent, calls>>

NextDecode == CallFromDynamoDBValue \/ CallMapDynamoDBItemToType \/ CallMapItemWith

SpecDecode == InitDecode /\ [][NextDecode]_vars

\* An object with one tag, and that tag none of the seven the codec knows.
HasUnrecognizedTag(raw) ==
    raw.t = "object" /\ Len(raw.e) = 1 /\ raw.e[1].k = "UNKNOWN_TYPE"

\* C11: fromDynamoDBValue and mapDynamoDBItemToType throw for no input,
\* malformed or not; a value with an unrecognized tag or with no tag decodes
\* to null, the other fields of its item are decoded all the same, and a
\* null or non-object item decodes to the empty mapping.
C11_DecodingIsTotal ==
    /\ pc \in {"value", "mapping", "item"} => ~Threw(output)
    /\ (pc = "value" /\ (HasUnrecognizedTag(input.raw) \/ input.raw = Obj(<<>>)))
          => output = Return(Null)
    /\ (pc = "item" /\ ~Threw(output)) =>
          /\ Get(output.value, "id") = Num(10)
          /\ Get(output.value, "normal") = Str("test")
    /\ (pc = "item" /\ HasUnrecognizedTag(input.raw))
          => output = Return(Obj(<<Entry("id", Num(10)), Entry("weird", Null),
                                   Entry("normal", Str("test"))>>))
    /\ (pc = "mapping" /\ typeof(input.raw) # "object") => output = Return(Obj(<<>>))
    /\ (pc = "mapping" /\ input.raw = Null) => output = Return(Obj(<<>>))


-----------------------------------------------------------------------------
(* Operators of the residual predicates.                                   *)

\* The operators the builder translates.
SupportedOperators == {"<", ">", "<=", ">=", "=", "!=", "in", "not in", "like", "not like"}

\* The residual positions whose operator is none of them.
UnsupportedPositions(fs) ==
    {i \in 1..Len(Residual(fs)) : Residual(fs)[i].operator \notin SupportedOperators}

\* C12: when every field and value of the list passes validation and a
\* residual predicate has an operator outside <, >, <=, >=, =, !=, in,
\* not in, like, not like, buildFilterExpression raises the validation error
\* "Unsupported operator: <operator>" for the first such predicate and
\* returns no expression.
C12_UnsupportedOperatorIsRejected ==
    (/\ pc = "expression"
     /\ ~Threw(validateFilters(input.filters))
     /\ UnsupportedPositions(input.filters) # {}) =>
        LET bad == UnsupportedPositions(input.filters)
            first == CHOOSE i \in bad : \A j \in bad : i <= j
        IN  output = Throw(DynamoValidationError(
                        "Unsupported operator: "
                            \o Residual(input.filters)[first].operator))

-----------------------------------------------------------------------------
(* What the executor hands to the store of the prepared expression.        *)

\* The fields of the expression the store's request is to carry.
RequestFields ==
    {"KeyConditionExpression", "FilterExpression", "ExpressionAttributeNames",
     "ExpressionAttributeValues", "ScanIndexForward"}

\* The request carries field k with the value the expression has, and does
\* not carry it when the expression does not have it.
PassedThrough(request, expr, k) ==
    IF k \in DOMAIN expr THEN k \in DOMAIN request /\ request[k] = expr[k]
    ELSE k \notin DOMAIN request

\* C13: the request the executor sent carries the filter fragment, the key
\* condition, both placeholder maps and, when sortBy is set beside a key
\* condition, the scan-direction flag, each with the value the prepared
\* expression has.
C13_RequestCarriesExpression ==
    Len(sent) = 1 =>
        \A k \in RequestFields : PassedThrough(sent[1].input, params.params, k)

-----------------------------------------------------------------------------
(* processResults over raw items whose sort keys are strings, numbers, a   *)
(* mix of both, or absent.                                                 *)

\* The longest array of raw items drawn freely from the raw items.
MaxItems == 2

\* Raw items with the sort field "name": two with the same string, one with
\* a string of digits, two with numbers, one without the field.
RawItem(id, name) ==
    Obj(<<Entry("id", AttributeValue("S", Str(id)))>>
          \o (IF name = Undefined THEN <<>> ELSE <<Entry("name", name)>>))

RawItems ==
    {RawItem("1", AttributeValue("S", Str("a"))),
     RawItem("2", AttributeValue("S", Str("a"))),
     RawItem("3", AttributeValue("S", Str("5"))),
     RawItem("4", AttributeValue("N", Str("10"))),
     RawItem("5", AttributeValue("N", Str("9"))),
     RawItem("6", Undefined)}

\* Longer arrays: keys of one type and of several, keys the comparator
\* orders in a cycle (10 before "5" before 9 before 10), and more than five
\* items.
LongerItemLists ==
    LET item(id) == CHOOSE r \in RawItems : Get(r, "id") = AttributeValue("S", Str(id))
    IN  {<<item("4"), item("1"), item("5")>>,
         <<item("4"), item("3"), item("5")>>,
         <<item("2"), item("6"), item("1")>>,
         <<item("2"), item("1"), item("3"), item("6")>>,
         <<item("6"), item("5"), item("4"), item("2"), item("1"), item("6")>>}

ItemLists == UNION {[1..n -> RawItems] : n \in 0..MaxItems} \cup LongerItemLists

ProcessLimits == {Num(0), Num(10), Num(20), Num(50)}

ProcessOffsets == {Num(0), Num(10), Num(30)}

ProcessPaginations ==
    {Obj(<<>>),
     Obj(<<Entry("sortBy", Str("name"))>>),
     Obj(<<Entry("sortBy", Str("name")), Entry("sortDirection", Str("desc"))>>)}

InitProcess ==
    /\ pc = "start"
    /\ input \in {[items |-> Arr(its), limit |-> l, offset |-> o, pagination |-> pg] :
                     its \in ItemLists,
                     l \in ProcessLimits, o \in ProcessOffsets, pg \in ProcessPaginations}
    /\ output = Pending
    /\ Idle

\* processResults returns before it sorts.
ReturnsEarly(items, limit, offset) == limit = Num(0) \/ IntOf(offset) >= Len(items.a)

\* What the variable results can hold when processResults slices it: the
\* items themselves, or what the sort of their copy gave.
ResultsOf(items, limit, offset, pagination) ==
    IF ReturnsEarly(items, limit, offset) \/ ~truthy(sortByOf(pagination))
    THEN {items.a}
    ELSE sortOutcomes(items.a, sortByOf(pagination).s, scanForwardOf(pagination))

\* One call of processResults: params holds the caller's array as the call
\* leaves it and the sequence the call sliced, calls the decoding calls.
CallProcessResults ==
    /\ pc = "start"
    /\ \E results \in ResultsOf(input.items, input.limit, input.offset, input.pagination) :
          /\ output' = processResultsOf(results, input.items, input.limit, input.offset,
                                        input.pagination)
          /\ params' = [items |-> processResultsItems(input.items, input.limit, input.offset,
                                                      input.pagination),
                        results |-> results]
          /\ calls' = processResultsDecodes(results, input.items, input.limit, input.offset,
                                            input.pagination)
    /\ pc' = "processed"
    /\ UNCHANGED <<input, sent>>

\* A second call with the same array, limit, offset and pagination; the
\* engine's sort gives for the same array the order it gave before.
CallProcessResultsAgain ==
    /\ pc = "processed"
    /\ \E results \in (IF params.items = input.items THEN {params.results}
                       ELSE ResultsOf(params.items, input.limit, input.offset,
                                      input.pagination)) :
          output' = [first |-> output,
                     second |-> processResultsOf(results, params.items, input.limit,
                                                 input.offset, input.pagination)]
    /\ pc' = "again"
    /\ UNCHANGED <<input, params, sent, calls>>

NextProcess == CallProcessResults \/ CallProcessResultsAgain

SpecProcess == InitProcess /\ [][NextProcess]_vars

\* How many items the positions [offset, offset + limit) of n items hold.
SliceLength(n, limit, offset) ==
    IF offset >= n THEN 0
    ELSE IF offset + limit > n THEN n - offset ELSE limit

-----------------------------------------------------------------------------
(* A fetch whose store call fails.                                         *)

\* The fetch ended in handleError right after executeQuery: the store's
\* client rejected.
StoreCallFailed ==
    /\ pc = "failed"
    /\ Len(calls) >= 2
    /\ calls[Len(calls) - 1] = "executeQuery"
    /\ calls[Len(calls)] = "handleError"

\* C16: a fetch whose store call failed fails with the error the store
\* rejected with, as it is, and has handed the store one command: the
\* executor was called once.
C16_StoreErrorPropagatesOnce ==
    StoreCallFailed =>
        /\ output \in {Throw(error) : error \in StoreErrors}
        /\ Len(sent) = 1
        /\ Cardinality({i \in 1..Len(calls) : calls[i] = "executeQuery"}) = 1
        /\ \A i \in 1..Len(calls) : calls[i] # "processResults"

\* A fetch without filters and with limit 10 failed with the store's
\* "DynamoDB Error" after one ScanCommand.
C16_Witness ==
    /\ StoreCallFailed
    /\ input.query = [filters |-> <<>>, pagination |-> Obj(<<Entry("limit", Num(100))>>)]
    /\ output = Throw([name |-> "Error", message |-> "DynamoDB Error"])
    /\ Len(sent) = 1
    /\ sent[1].command = "ScanCommand"

-----------------------------------------------------------------------------
(* The expansion of in and not in.                                         *)

\* The value list of an in or not-in predicate: a value that is no array is
\* a list of one.
ValueList(f) == IF f.value.t = "array" THEN f.value.a ELSE <<f.value>>

\* The path of the residual predicate at position i (0-based): its segments'
\* name placeholders joined by ".".
PathOf(f, i) ==
    join([j \in 1..Len(split(f.field, ".")) |->
             "#key" \o ToString(i) \o "_" \o ToString(j - 1)], ".")

\* The disjunction the claim gives for an in or not-in predicate at
\* position i (0-based).
ExpectedDisjunction(f, i) ==
    LET terms == [k \in 1..Len(ValueList(f)) |->
                     PathOf(f, i) \o " = :val" \o ToString(i) \o "_" \o ToString(k - 1)]
    IN  IF f.operator = "in" THEN "(" \o join(terms, " OR ") \o ")"
        ELSE "NOT (" \o join(terms, " OR ") \o ")"

\* s begins with p.
StartsWith(s, p) == Len(s) >= Len(p) /\ SubSeq(s, 1, Len(p)) = p

\* C17: in an accepted expression, the sub-expression of each residual
\* predicate with operator in or not in and a list of n >= 1 values is the
\* disjunction of the n terms "path = :val{i}_{k}" in element order, in
\* "(...)" for in and "NOT (...)" for not in; the value placeholders of
\* position i are exactly :val{i}_0 .. :val{i}_{n-1}, each bound to the
\* encoding of its element.
C17_InExpandsToDisjunction ==
    Accepted =>
        LET rest == Residual(input.filters)
            e == output.value
            fresh == [ExpressionAttributeNames |-> <<>>, ExpressionAttributeValues |-> <<>>]
            isIn(i) == rest[i].operator \in {"in", "not in"} /\ Len(ValueList(rest[i])) >= 1
            text(i) == IF isIn(i) THEN ExpectedDisjunction(rest[i], i - 1)
                       ELSE buildSubExpression(fresh, rest[i].field, rest[i].operator,
                                               rest[i].value, i - 1).value.text
        IN  (\E i \in 1..Len(rest) : isIn(i)) =>
               /\ "FilterExpression" \in DOMAIN e
               /\ e.FilterExpression = join([i \in 1..Len(rest) |-> text(i)], " AND ")
               /\ \A i \in {j \in 1..Len(rest) : isIn(j)} :
                     /\ \A k \in 1..Len(ValueList(rest[i])) :
                           Binds(e.ExpressionAttributeValues,
                                 ":val" \o ToString(i - 1) \o "_" \o ToString(k - 1),
                                 toDynamoDBValue(ValueList(rest[i])[k]).value)
                     /\ {ph \in DOMAIN e.ExpressionAttributeValues :
                            \/ StartsWith(ph, ":val" \o ToString(i - 1) \o "_")
                            \/ ph = ":val" \o ToString(i - 1)}
                          = {":val" \o ToString(i - 1) \o "_" \o ToString(k - 1) :
                                k \in 1..Len(ValueList(rest[i]))}

\* A not in with a value that is no array, then an in with a list of three.
C17_Witness ==
    /\ Accepted
    /\ input.filters = <<Filter("role", "not in", Str("admin")),
                         Filter("tags", "in", Arr(<<Str("a"), Str("b"), Str("c")>>))>>
    /\ output.value.FilterExpression
         = "NOT (#key0_0 = :val0_0) AND (#key1_0 = :val1_0 OR #key1_0 = :val1_1 OR #key1_0 = :val1_2)"
    /\ DOMAIN output.value.ExpressionAttributeValues
         = {":val0_0", ":val1_0", ":val1_1", ":val1_2"}
    /\ output.value.ExpressionAttributeValues[":val1_2"] = AttributeValue("S", Str("c"))

\* The one-to-one maps of the positions 1..n.
Bijections(n) == {f \in [1..n -> 1..n] : \A i, j \in 1..n : f[i] = f[j] => i = j}

\* C18: with sortBy set, the sequence processResults slices is a permutation
\* of the raw items in which no item stands after an item the comparator
\* ranks strictly after it (two strings as strings, two numbers numerically,
\* any other pair by their string forms, an absent field as "", reversed for
\* 'desc'), whatever the types of the keys, and items with equal keys stand
\* in their original order.
C18_SlicedSequenceIsSorted ==
    (/\ pc = "processed"
     /\ truthy(sortByOf(input.pagination))
     /\ ~ReturnsEarly(input.items, input.limit, input.offset)) =>
        LET items == input.items.a
            results == params.results
            n == Len(items)
            key(x) == sortKeyValue(x, sortByOf(input.pagination).s).value
            cmp(x, y) == compareKeys(key(x), key(y), scanForwardOf(input.pagination))
        IN  /\ Len(results) = n
            /\ \A p, q \in 1..Len(results) : p < q => cmp(results[p], results[q]) <= 0
            /\ \E f \in Bijections(n) :
                  /\ \A i \in 1..n : i <= Len(results) /\ results[i] = items[f[i]]
                  /\ \A p, q \in 1..n :
                        (p < q /\ cmp(items[f[p]], items[f[q]]) = 0) => f[p] < f[q]

-----------------------------------------------------------------------------
(* The placeholders of a request: those its maps bind and those its        *)
(* fragments name.                                                         *)

\* The characters of a placeholder after its sigil.
PlaceholderChars == UpperCaseLetters \o LowerCaseLetters \o DigitChars \o "_"

\* The placeholders with the sigil ("#" or ":") that the text names.
PlaceholdersIn(text, sigil) ==
    LET isName(m) == InClass(CharAt(text, m), PlaceholderChars)
        last(i) == CHOOSE k \in i..Len(text) :
                      /\ \A m \in (i + 1)..k : isName(m)
                      /\ (k = Len(text) \/ ~isName(k + 1))
    IN  {SubSeq(text, i, last(i)) : i \in {j \in 1..Len(text) : CharAt(text, j) = sigil}}

\* The placeholders with the sigil that the fragments of the request name.
Referenced(request, sigil) ==
    (IF "KeyConditionExpression" \in DOMAIN request
     THEN PlaceholdersIn(request.KeyConditionExpression, sigil) ELSE {})
      \cup (IF "FilterExpression" \in DOMAIN request
            THEN PlaceholdersIn(request.FilterExpression, sigil) ELSE {})

\* The placeholders the map of the request binds.
Bound(request, map) == IF map \in DOMAIN request THEN DOMAIN request[map] ELSE {}

\* C19: in the request a fetch hands to the store, the name placeholders
\* that ExpressionAttributeNames binds are those KeyConditionExpression and
\* FilterExpression name, and the value placeholders that
\* ExpressionAttributeValues binds are those the two fragments name.
C19_PlaceholdersAgreeWithFragments ==
    \A i \in 1..Len(sent) :
        /\ Bound(sent[i].input, "ExpressionAttributeNames") = Referenced(sent[i].input, "#")
        /\ Bound(sent[i].input, "ExpressionAttributeValues") = Referenced(sent[i].input, ":")
=============================================================================
